---- MODULE Spec2Model ----
(***************************************************************************)
(* Model of the MCP discovery and bridging subsystem of gemini-cli-mini:   *)
(* src/src/core/mcp/mcp-client.js together with the tool registry it       *)
(* registers into (src/src/core/client.js, src/unnamed/part_002).          *)
(*                                                                         *)
(* JavaScript runs every synchronous stretch of code to completion, so an  *)
(* action of this model is one such stretch: from the resumption of an     *)
(* await (or a call from outside) to the next await.                       *)
(***************************************************************************)
EXTENDS Naturals, Sequences, FiniteSets, TLC

VARIABLES
  mcpDiscoveryState,          \* mcp-client.js:54
  mcpServerStatusesInternal,  \* mcp-client.js:49, server name -> status
  statusChangeListeners,      \* mcp-client.js:59, array of listeners
  lastNotified,               \* per listener: the last (name, status) it was called with
  lastSet,                    \* the latest status set made from outside a pipeline, with its listener calls
  toolRegistry,               \* baseToolRegistry.tools, as the set of its values
  runState,                   \* per discoverMcpTools call: where it stands
  runServers,                 \* per call: the mcpServers object after populateMcpServerCommand
  dispatchIdx,                \* per call: how many entries the map() of line 131 has handled
  pipe,                       \* per call: one record per connectAndDiscover invocation
  calls,                      \* tool invocations through the registry, in order of issue
  fIn,                        \* input of a stand-alone discoverTools evaluation
  fOut,                       \* its result
  miniGeminiClient            \* cli.js:37, the client of the chat command: its setup and its chat loop

vars == <<mcpDiscoveryState, mcpServerStatusesInternal, statusChangeListeners,
          lastNotified, lastSet, toolRegistry, runState, runServers, dispatchIdx, pipe,
          calls, fIn, fOut, miniGeminiClient>>

\* ------------------------------------------------------------------ values

\* A property that is undefined / missing, and one that is present.
Absent == [has |-> FALSE]
Some(v) == [has |-> TRUE, val |-> v]

\* JavaScript truthiness of an optional string (a sequence of characters or a
\* TLA+ string): undefined and the empty string are falsy.
TruthyStr(o) == o.has /\ o.val # ""
TruthySeq(o) == o.has /\ o.val # <<>>

\* a ?? b
Coalesce(o, d) == IF o.has THEN o.val ELSE d

SeqsUpTo(S, n) == UNION {[1..k -> S] : k \in 0..n}

Range(s) == {s[i] : i \in DOMAIN s}

\* ------------------------------------------------------------------ bounds

MaxRuns == 2
MaxFaults == 1
MaxListeners == 2
MaxCalls == 1
MaxInclude == 2
MaxExclude == 1
MaxDecls == 2
MaxRegistrations == 3
MaxMessages == 2

\* ------------------------------------------------------------------ constants of the program

MCP_DEFAULT_TIMEOUT_MSEC == 600000

DISCONNECTED == "disconnected"
CONNECTING == "connecting"
CONNECTED == "connected"

NOT_STARTED == "not_started"
IN_PROGRESS == "in_progress"
COMPLETED == "completed"

\* ------------------------------------------------------------------ descriptors

\* An MCPServerConfig. Tool names are sequences of characters, so that the
\* prefix rule of isEnabled is computed and not assumed.
Config(httpUrl, url, command, timeout, includeTools, excludeTools) ==
  [httpUrl |-> httpUrl, url |-> url, command |-> command, args |-> <<>>,
   timeout |-> timeout, includeTools |-> includeTools, excludeTools |-> excludeTools]

Entry(name, config) == [name |-> name, config |-> config]

NameX == <<"x">>
NameY == <<"y">>
NameXsub == <<"x", "(", "s", ")">>
NameXY == <<"x", "y">>
NameZ == <<"z">>

CfgA == Config(Absent, Absent, Some(<<"n">>), Absent, Absent, Absent)
CfgB == Config(Absent, Some("http://b/sse"), Absent, Some(1000), Some(<<NameXsub>>), Absent)
CfgC == Config(Some("http://c/mcp"), Absent, Absent, Some(5000), Absent, Some(<<NameX>>))
CfgNone == Config(Absent, Absent, Absent, Absent, Absent, Absent)
CfgMcp == Config(Some("http://m/mcp"), Absent, Absent, Some(1000), Some(<<NameX>>), Absent)

\* ------------------------------------------------------------------ pure functions

\* new URL(s) (mcp-client.js:343, 358) parses s and throws a TypeError on a
\* string that is no URL.
MalformedURLs == {"bad"}
new_URL(s) == [ok |-> s \notin MalformedURLs]

Built(kind) == [ok |-> TRUE, kind |-> kind, error |-> "none"]
Thrown(error) == [ok |-> FALSE, kind |-> "none", error |-> error]

\* createTransport with a subprocess as the fallback when no selector is set.
createTransport_DefaultsToStdio(mcpServerConfig) ==
  IF TruthyStr(mcpServerConfig.httpUrl)
    THEN IF new_URL(mcpServerConfig.httpUrl.val).ok
           THEN Built("StreamableHTTPClientTransport") ELSE Thrown("TypeError")
  ELSE IF TruthyStr(mcpServerConfig.url)
    THEN IF new_URL(mcpServerConfig.url.val).ok
           THEN Built("SSEClientTransport") ELSE Thrown("TypeError")
  ELSE Built("StdioClientTransport")

\* createTransport with the url selector tested before httpUrl.
createTransport_UrlFirst(mcpServerConfig) ==
  IF TruthyStr(mcpServerConfig.url)
    THEN IF new_URL(mcpServerConfig.url.val).ok
           THEN Built("SSEClientTransport") ELSE Thrown("TypeError")
  ELSE IF TruthyStr(mcpServerConfig.httpUrl)
    THEN IF new_URL(mcpServerConfig.httpUrl.val).ok
           THEN Built("StreamableHTTPClientTransport") ELSE Thrown("TypeError")
  ELSE IF TruthySeq(mcpServerConfig.command)
    THEN Built("StdioClientTransport")
  ELSE Thrown("Invalid configuration")

\* createTransport (mcp-client.js:330-380): the first truthy selector, in the
\* order httpUrl, url, command, decides which transport object is built; with
\* no truthy selector the "Invalid configuration" error is thrown.
createTransport(mcpServerConfig) ==
  IF TruthyStr(mcpServerConfig.httpUrl)
    THEN IF new_URL(mcpServerConfig.httpUrl.val).ok
           THEN Built("StreamableHTTPClientTransport") ELSE Thrown("TypeError")
  ELSE IF TruthyStr(mcpServerConfig.url)
    THEN IF new_URL(mcpServerConfig.url.val).ok
           THEN Built("SSEClientTransport") ELSE Thrown("TypeError")
  ELSE IF TruthySeq(mcpServerConfig.command)
    THEN Built("StdioClientTransport")
  ELSE Thrown("Invalid configuration")

\* String.prototype.startsWith
StartsWith(t, p) == Len(t) >= Len(p) /\ SubSeq(t, 1, Len(p)) = p

\* Array.prototype.includes
Includes(arr, x) == \E i \in DOMAIN arr : arr[i] = x

\* isEnabled with the include list consulted before the exclude list.
isEnabled_IncludeFirst(funcDecl, mcpServerConfig) ==
  IF ~TruthySeq(funcDecl.name) THEN FALSE
  ELSE IF mcpServerConfig.includeTools.has
          /\ \E i \in DOMAIN mcpServerConfig.includeTools.val :
               \/ mcpServerConfig.includeTools.val[i] = funcDecl.name.val
               \/ StartsWith(mcpServerConfig.includeTools.val[i], funcDecl.name.val \o <<"(">>)
    THEN TRUE
  ELSE IF mcpServerConfig.excludeTools.has
          /\ Includes(mcpServerConfig.excludeTools.val, funcDecl.name.val)
    THEN FALSE
  ELSE ~mcpServerConfig.includeTools.has

\* isEnabled (mcp-client.js:383-407)
isEnabled(funcDecl, mcpServerConfig) ==
  IF ~TruthySeq(funcDecl.name) THEN FALSE
  ELSE IF mcpServerConfig.excludeTools.has
          /\ Includes(mcpServerConfig.excludeTools.val, funcDecl.name.val)
    THEN FALSE
  ELSE \/ ~mcpServerConfig.includeTools.has
       \/ \E i \in DOMAIN mcpServerConfig.includeTools.val :
            LET tool == mcpServerConfig.includeTools.val[i] IN
              \/ tool = funcDecl.name.val
              \/ StartsWith(tool, funcDecl.name.val \o <<"(">>)

\* new DiscoveredMCPTool(...) (mcp-client.js:447-462), as built at lines 245-254
DiscoveredMCPTool(mcpCallableTool, serverName, name, description, timeout) ==
  [mcpCallableTool |-> mcpCallableTool, serverName |-> Some(serverName), name |-> name,
   description |-> description, timeout |-> Some(timeout)]

\* mcpToTool(mcpClient).tool() (mcp-client.js:414-427): listResult.tools.map(...)
\* throws a TypeError when listResult.tools is no array.
mcpToTool_tool(listResult) ==
  IF listResult.isArray
    THEN [ok |-> TRUE, functionDeclarations |-> listResult.tools]
    ELSE [ok |-> FALSE, functionDeclarations |-> <<>>]

\* discoverTools without the "No enabled tools found" check of line 256.
discoverTools_AllowsEmpty(mcpServerName, mcpServerConfig, mcpClient, listResult) ==
  LET tool == mcpToTool_tool(listResult)
      kept == SelectSeq(tool.functionDeclarations,
                        LAMBDA funcDecl : isEnabled(funcDecl, mcpServerConfig))
  IN IF ~tool.ok THEN [ok |-> FALSE, tools |-> <<>>]
     ELSE [ok |-> TRUE,
           tools |-> [i \in 1..Len(kept) |->
             DiscoveredMCPTool(mcpClient, mcpServerName, kept[i].name.val,
                               Coalesce(kept[i].description, ""),
                               Coalesce(mcpServerConfig.timeout, MCP_DEFAULT_TIMEOUT_MSEC))]]

\* discoverTools (mcp-client.js:226-263) on the settled list request: every
\* throw inside the try ends in the rethrow of line 261. mcpClient names the
\* client the tools forward to (the pipeline that created it).
discoverTools(mcpServerName, mcpServerConfig, mcpClient, listResult) ==
  LET tool == mcpToTool_tool(listResult)
      kept == SelectSeq(tool.functionDeclarations,
                        LAMBDA funcDecl : isEnabled(funcDecl, mcpServerConfig))
      discoveredTools ==
        [i \in 1..Len(kept) |->
           DiscoveredMCPTool(mcpClient, mcpServerName, kept[i].name.val,
                             Coalesce(kept[i].description, ""),
                             Coalesce(mcpServerConfig.timeout, MCP_DEFAULT_TIMEOUT_MSEC))]
  IN IF ~tool.ok THEN [ok |-> FALSE, tools |-> <<>>]
     ELSE IF Len(discoveredTools) = 0 THEN [ok |-> FALSE, tools |-> <<>>]
     ELSE [ok |-> TRUE, tools |-> discoveredTools]

\* parse(cmd, process.env) of shell-quote, on command lines made of letters,
\* blanks and the control operator "|": blanks separate words, an operator
\* becomes an object {op: "|"} and not a string.
RECURSIVE parseFrom(_, _, _)
parseFrom(chars, word, acc) ==
  LET flush == IF word = <<>> THEN acc
               ELSE Append(acc, [kind |-> "string", text |-> word])
  IN IF chars = <<>> THEN flush
     ELSE IF Head(chars) = " " THEN parseFrom(Tail(chars), <<>>, flush)
     ELSE IF Head(chars) = "|"
       THEN parseFrom(Tail(chars), <<>>, Append(flush, [kind |-> "op", text |-> <<"|">>]))
     ELSE parseFrom(Tail(chars), Append(word, Head(chars)), acc)

parse(cmd) == parseFrom(cmd, <<>>, <<>>)

\* mcpServers['mcp'] = value: an existing key keeps its place in the object,
\* a new key is added last (Object.entries order).
SetKey(mcpServers, name, config) ==
  IF \E i \in DOMAIN mcpServers : mcpServers[i].name = name
    THEN [i \in DOMAIN mcpServers |->
            IF mcpServers[i].name = name THEN Entry(name, config) ELSE mcpServers[i]]
    ELSE Append(mcpServers, Entry(name, config))

\* populateMcpServerCommand setting command and args on the descriptor the map
\* already has under 'mcp'.
populateMcpServerCommand_Merges(mcpServers, mcpServerCommand) ==
  IF TruthySeq(mcpServerCommand)
    THEN LET args == parse(mcpServerCommand.val)
             old == IF \E i \in DOMAIN mcpServers : mcpServers[i].name = "mcp"
                      THEN mcpServers[CHOOSE i \in DOMAIN mcpServers :
                                        mcpServers[i].name = "mcp"].config
                      ELSE Config(Absent, Absent, Absent, Absent, Absent, Absent)
         IN
      IF \E i \in DOMAIN args : args[i].kind # "string"
        THEN [ok |-> FALSE, mcpServers |-> mcpServers]
        ELSE [ok |-> TRUE,
              mcpServers |->
                SetKey(mcpServers, "mcp",
                  [old EXCEPT !.command = IF Len(args) > 0 THEN Some(args[1].text) ELSE Absent,
                              !.args = [i \in 1..(Len(args) - 1) |-> args[i + 1].text]])]
    ELSE [ok |-> TRUE, mcpServers |-> mcpServers]

\* populateMcpServerCommand (mcp-client.js:146-163)
populateMcpServerCommand(mcpServers, mcpServerCommand) ==
  IF TruthySeq(mcpServerCommand)
    THEN LET args == parse(mcpServerCommand.val) IN
      IF \E i \in DOMAIN args : args[i].kind # "string"
        THEN [ok |-> FALSE, mcpServers |-> mcpServers]
        ELSE [ok |-> TRUE,
              mcpServers |->
                SetKey(mcpServers, "mcp",
                  [httpUrl |-> Absent, url |-> Absent,
                   command |-> IF Len(args) > 0 THEN Some(args[1].text) ELSE Absent,
                   args |-> [i \in 1..(Len(args) - 1) |-> args[i + 1].text],
                   timeout |-> Absent, includeTools |-> Absent, excludeTools |-> Absent])]
    ELSE [ok |-> TRUE, mcpServers |-> mcpServers]

\* ------------------------------------------------------------------ inputs

Runs == 1..MaxRuns
Listeners == {"L1", "L2"}
ServerNames == {"a", "b", "c", "mcp", "none"}

\* The arguments of one discoverMcpTools call: the resolved server map (in
\* Object.entries order) and the ad-hoc command line, if any.
RunInput(mcpServers, mcpServerCommand) ==
  [mcpServers |-> mcpServers, mcpServerCommand |-> mcpServerCommand]

RunInputs ==
  { RunInput(<<Entry("a", CfgA), Entry("b", CfgB), Entry("c", CfgC)>>, Absent),
    RunInput(<<Entry("mcp", CfgMcp), Entry("none", CfgNone)>>, Some(<<"n", " ", "s">>)),
    RunInput(<<Entry("a", CfgA)>>, Some(<<"n", "|", "s">>)),
    RunInput(<<>>, Some(<<>>)) }

OverlapInputs ==
  { RunInput(<<Entry("a", CfgA)>>, Absent),
    RunInput(<<Entry("b", CfgB)>>, Absent) }

\* What a server may answer to tools/list.
DeclX == [name |-> Some(NameX), description |-> Some("dx")]
DeclY == [name |-> Some(NameY), description |-> Absent]
DeclZ == [name |-> Some(NameZ), description |-> Some("dz")]
ListResults ==
  { [isArray |-> FALSE, tools |-> <<>>],
    [isArray |-> TRUE, tools |-> <<DeclX, DeclY>>],
    [isArray |-> TRUE, tools |-> <<DeclZ>>] }

\* The local tools setupTools registers before MCP discovery (client.js:118-120):
\* read_file, write_file and save_memory, named here by one letter each.
LocalTool(name) ==
  [mcpCallableTool |-> <<0, 0>>, serverName |-> Absent, name |-> name,
   description |-> "", timeout |-> Absent]
LocalTools == {LocalTool(<<"r">>), LocalTool(<<"w">>), LocalTool(<<"m">>)}

\* ------------------------------------------------------------------ state

NewPipe ==
  [pc |-> "idle", transport |-> "none", transportKind |-> "none",
   client |-> "none", closeInvokedAfter |-> Absent, hook |-> FALSE,
   connect |-> "pending", connectTimeout |-> Absent, listTimeout |-> Absent, disc |-> "pending",
   tools |-> <<>>, registerCalls |-> <<>>, registered |-> 0, threw |-> FALSE, published |-> <<>>, faults |-> 0,
   outcome |-> "pending"]

Init ==
  /\ mcpDiscoveryState = NOT_STARTED
  /\ mcpServerStatusesInternal = [n \in ServerNames |-> Absent]
  /\ statusChangeListeners = <<>>
  /\ lastNotified = <<>>
  /\ lastSet = Absent
  /\ miniGeminiClient = Absent
  /\ toolRegistry = LocalTools
  /\ runState = [r \in Runs |-> "idle"]
  /\ runServers = [r \in Runs |-> <<>>]
  /\ dispatchIdx = [r \in Runs |-> 0]
  /\ pipe = [r \in Runs |-> <<>>]
  /\ calls = <<>>
  /\ fIn = Absent
  /\ fOut = Absent

\* getMCPServerStatus (mcp-client.js:92-96)
getMCPServerStatus(serverName) ==
  Coalesce(mcpServerStatusesInternal[serverName], DISCONNECTED)

\* No discoverMcpTools call is inside its synchronous stretch (lines 127-139).
NoSyncSection == \A r \in Runs : runState[r] # "dispatching"

\* updateMCPServerStatus (mcp-client.js:81-87): the map is set, then every
\* listener is called in array order. lastNotified is the sequence of listener
\* calls made by the action that ran last.
Notifications_None(serverName, status) == <<>>
Notifications(serverName, status) ==
  [k \in DOMAIN statusChangeListeners |->
     [listener |-> statusChangeListeners[k], serverName |-> serverName, status |-> status]]

updateMCPServerStatus(serverName, status) ==
  /\ mcpServerStatusesInternal' =
       [mcpServerStatusesInternal EXCEPT ![serverName] = Some(status)]
  /\ lastNotified' = Notifications(serverName, status)
  /\ UNCHANGED <<lastSet, miniGeminiClient>>

Quiet ==
  lastNotified' = <<>> /\ UNCHANGED <<mcpServerStatusesInternal, lastSet, miniGeminiClient>>

\* One more published status in a pipeline's own history.
Published(published, status, by) ==
  Append(published, [status |-> status, phase |-> mcpDiscoveryState, by |-> by])

\* addMCPStatusChangeListener (mcp-client.js:64-66)
addMCPStatusChangeListener(listener) ==
  /\ NoSyncSection
  /\ Len(statusChangeListeners) < MaxListeners
  /\ statusChangeListeners' = Append(statusChangeListeners, listener)
  /\ Quiet
  /\ UNCHANGED <<mcpDiscoveryState, toolRegistry, runState, runServers, dispatchIdx,
                 pipe, calls, fIn, fOut>>

\* removeMCPStatusChangeListener (mcp-client.js:71-76): the first occurrence goes.
IndexOf(arr, x) ==
  IF Includes(arr, x) THEN CHOOSE i \in DOMAIN arr :
       arr[i] = x /\ \A j \in 1..(i - 1) : arr[j] # x
  ELSE 0

\* Lines 72-75: indexOf and, when found, splice(index, 1).
spliceListener(arr, listener) ==
  LET index == IndexOf(arr, listener) IN
    IF index # 0
      THEN SubSeq(arr, 1, index - 1) \o SubSeq(arr, index + 1, Len(arr))
      ELSE arr

removeMCPStatusChangeListener(listener) ==
  /\ NoSyncSection
  /\ statusChangeListeners' = spliceListener(statusChangeListeners, listener)
  /\ Quiet
  /\ UNCHANGED <<mcpDiscoveryState, toolRegistry, runState, runServers, dispatchIdx,
                 pipe, calls, fIn, fOut>>

\* ------------------------------------------------------------------ listeners that call back

\* What a listener does when it is called, besides reading the status of the
\* server it is told about: nothing more, addMCPStatusChangeListener(l) or
\* removeMCPStatusChangeListener(l). A listener reacts on its first call within
\* one status set and only reads on later ones.
Reactions ==
  {[op |-> "none", listener |-> "L1"]}
    \cup {[op |-> o, listener |-> l] : o \in {"add", "remove"}, l \in Listeners}

NoReaction == [op |-> "none", listener |-> "L1"]

\* At most one of the listeners reacts to a given status set.
ReactionsOfOne ==
  {[m \in Listeners |-> IF m = l THEN r ELSE NoReaction] : l \in Listeners, r \in Reactions}

React(arr, reaction) ==
  IF reaction.op = "add" THEN Append(arr, reaction.listener)
  ELSE IF reaction.op = "remove" THEN spliceListener(arr, reaction.listener)
  ELSE arr

\* The statuses a listener can read while the loop of lines 84-86 runs: line 82
\* has set the map before the loop starts.
StatusesDuringNotify_NotYetSet(before, after) == before
StatusesDuringNotify(before, after) == after

\* for (const listener of statusChangeListeners) listener(serverName, status)
\* (mcp-client.js:84-86). The array iterator reads the live array: each turn
\* compares its index with the current length and takes the element at the index.
RECURSIVE notifyFrom(_, _, _, _, _, _, _, _)
notifyFrom(arr, index, fired, log, reaction, serverName, status, seen) ==
  IF index > Len(arr) THEN [listeners |-> arr, log |-> log]
  ELSE LET listener == arr[index]
           next == IF listener \in fired THEN arr ELSE React(arr, reaction[listener])
       IN notifyFrom(next, index + 1, fired \cup {listener},
                     Append(log, [listener |-> listener, serverName |-> serverName,
                                  status |-> status, seen |-> seen]),
                     reaction, serverName, status, seen)

\* updateMCPServerStatus (mcp-client.js:81-87) called on its own, with listeners
\* that may subscribe and unsubscribe while they are notified.
updateMCPServerStatus_call(serverName, status, reaction) ==
  /\ NoSyncSection
  /\ LET after == [mcpServerStatusesInternal EXCEPT ![serverName] = Some(status)]
         seen == Coalesce(StatusesDuringNotify(mcpServerStatusesInternal, after)[serverName],
                          DISCONNECTED)
         done == notifyFrom(statusChangeListeners, 1, {}, <<>>, reaction,
                            serverName, status, seen)
     IN /\ Len(done.listeners) <= MaxListeners
        /\ mcpServerStatusesInternal' = after
        /\ statusChangeListeners' = done.listeners
        /\ lastNotified' = [k \in DOMAIN done.log |->
                              [listener |-> done.log[k].listener,
                               serverName |-> serverName, status |-> status]]
        /\ lastSet' = Some([serverName |-> serverName, status |-> status,
                            subscribed |-> statusChangeListeners, calls |-> done.log])
  /\ UNCHANGED <<mcpDiscoveryState, toolRegistry, runState, runServers, dispatchIdx,
                 pipe, calls, fIn, fOut, miniGeminiClient>>

\* ------------------------------------------------------------------ discoverMcpTools

\* mcp-client.js:127 and :141
PhaseAtStart_NotSet == mcpDiscoveryState
PhaseAtStart == IN_PROGRESS
PhaseInFinally_StillInProgress == IN_PROGRESS
PhaseInFinally == COMPLETED

\* mcp-client.js:180, :188, :192 and :211: the status each place publishes
StatusAtEntry == CONNECTING
StatusAfterConnect_StillConnecting == CONNECTING
StatusAfterConnect == CONNECTED
StatusOnFault_Reconnect == CONNECTING
StatusOnFault == DISCONNECTED
StatusInCatch_Unchanged == CONNECTING
StatusInCatch == DISCONNECTED

\* How the promise of connectAndDiscover settles (mcp-client.js:207-213): the
\* outer catch logs, publishes and returns, so the promise is fulfilled whether
\* or not a step failed.
connectAndDiscoverSettles_Rethrows(failed) == IF failed THEN "rejected" ELSE "fulfilled"
connectAndDiscoverSettles(failed) == "fulfilled"

\* discoverMcpTools up to the first entry of the map() (mcp-client.js:127-131).
\* A command line that does not tokenize throws out of the try: the finally
\* runs and the returned promise is rejected, all in this stretch.
discoverMcpTools_entry(r, input) ==
  /\ NoSyncSection
  /\ runState[r] = "idle"
  /\ \A q \in Runs : q < r => runState[q] # "idle"   \* calls are numbered in the order they are made
  /\ LET populated == populateMcpServerCommand(input.mcpServers, input.mcpServerCommand)
         n == Len(populated.mcpServers)
     IN IF populated.ok
          THEN /\ mcpDiscoveryState' = PhaseAtStart
               /\ runServers' = [runServers EXCEPT ![r] = populated.mcpServers]
               /\ pipe' = [pipe EXCEPT ![r] = [i \in 1..n |-> NewPipe]]
               /\ runState' = [runState EXCEPT ![r] =
                                 IF n = 0 THEN "awaiting" ELSE "dispatching"]
          ELSE /\ mcpDiscoveryState' = PhaseInFinally
               /\ runState' = [runState EXCEPT ![r] = "rejected"]
               /\ runServers' = [runServers EXCEPT ![r] = input.mcpServers]
               /\ UNCHANGED pipe

discoverMcpTools(r, input) ==
  /\ discoverMcpTools_entry(r, input)
  /\ Quiet
  /\ UNCHANGED <<statusChangeListeners, toolRegistry, dispatchIdx, calls, fIn, fOut>>

\* One callback of the map() of line 131: connectAndDiscover runs up to its
\* first await, which is inside connectToMcpServer (lines 180-183, 279-300);
\* createTransport has no await and has built the transport, or thrown, by then.
connectAndDiscover_start(r) ==
  /\ runState[r] = "dispatching"
  /\ LET i == dispatchIdx[r] + 1
         e == runServers[r][i]
         transport == createTransport(e.config)
     IN /\ updateMCPServerStatus(e.name, StatusAtEntry)
        /\ pipe' = [pipe EXCEPT ![r][i] =
             [@ EXCEPT !.pc = "createTransport",
                       !.client = "new",
                       !.transport = IF transport.ok THEN "created" ELSE "none",
                       !.transportKind = transport.kind,
                       !.published = Published(@, StatusAtEntry, "pipeline")]]
        /\ dispatchIdx' = [dispatchIdx EXCEPT ![r] = i]
        /\ runState' = [runState EXCEPT ![r] =
                          IF i = Len(runServers[r]) THEN "awaiting" ELSE "dispatching"]
  /\ UNCHANGED <<mcpDiscoveryState, statusChangeListeners, toolRegistry, runServers,
                 calls, fIn, fOut>>

PipeIds(r) == DOMAIN pipe[r]

\* connectToMcpServer after `await createTransport` (mcp-client.js:297-304,
\* 310-326): connect is called with the descriptor's timeout, or the thrown
\* configuration error is rethrown as the concise error.
connectToMcpServer_connect(r, i) ==
  /\ NoSyncSection
  /\ pipe[r][i].pc = "createTransport"
  /\ pipe' = [pipe EXCEPT ![r][i] =
       IF @.transport = "created"
         THEN [@ EXCEPT !.pc = "connect", !.transport = "open",
                        !.connectTimeout =
                          Some(Coalesce(runServers[r][i].config.timeout,
                                        MCP_DEFAULT_TIMEOUT_MSEC))]
         ELSE [@ EXCEPT !.pc = "connectRejected", !.connect = "config"]]
  /\ Quiet
  /\ UNCHANGED <<mcpDiscoveryState, statusChangeListeners, toolRegistry, runState,
                 runServers, dispatchIdx, calls, fIn, fOut>>

\* mcpClient.connect resolves (mcp-client.js:302-305).
connectResolves(r, i) ==
  /\ NoSyncSection
  /\ pipe[r][i].pc = "connect"
  /\ pipe' = [pipe EXCEPT ![r][i] =
       [@ EXCEPT !.pc = "connectResolved", !.connect = "ok", !.client = "connected"]]
  /\ Quiet
  /\ UNCHANGED <<mcpDiscoveryState, statusChangeListeners, toolRegistry, runState,
                 runServers, dispatchIdx, calls, fIn, fOut>>

\* mcpClient.connect rejects, by an error or by its timeout: the inner catch
\* calls transport.close() and awaits it (mcp-client.js:306-307).
ConnectFailures == {"error", "timeout"}

\* Where the inner catch of connectToMcpServer stands once transport.close()
\* has been called (mcp-client.js:307): at the await of the close, not yet at
\* the throw.
connectToMcpServer_catch_NotAwaited == "connectRejected"
connectToMcpServer_catch == "transportClose"

connectRejects(r, i, kind) ==
  /\ NoSyncSection
  /\ pipe[r][i].pc = "connect"
  /\ pipe' = [pipe EXCEPT ![r][i] =
       [@ EXCEPT !.pc = connectToMcpServer_catch, !.connect = kind, !.transport = "closing"]]
  /\ Quiet
  /\ UNCHANGED <<mcpDiscoveryState, statusChangeListeners, toolRegistry, runState,
                 runServers, dispatchIdx, calls, fIn, fOut>>

\* transport.close() settles; the error is rethrown (mcp-client.js:308-326).
transportCloseSettles(r, i) ==
  /\ NoSyncSection
  /\ pipe[r][i].pc = "transportClose"
  /\ pipe' = [pipe EXCEPT ![r][i] =
       [@ EXCEPT !.pc = "connectRejected", !.transport = "closed"]]
  /\ Quiet
  /\ UNCHANGED <<mcpDiscoveryState, statusChangeListeners, toolRegistry, runState,
                 runServers, dispatchIdx, calls, fIn, fOut>>

\* connectAndDiscover when `await connectToMcpServer` rejects: the outer catch
\* (mcp-client.js:207-212).
connectAndDiscover_connectFailed(r, i) ==
  /\ NoSyncSection
  /\ pipe[r][i].pc = "connectRejected"
  /\ updateMCPServerStatus(runServers[r][i].name, StatusInCatch)
  /\ pipe' = [pipe EXCEPT ![r][i] =
       [@ EXCEPT !.pc = "settled",
                 !.published = Published(@, StatusInCatch, "pipeline"),
                 !.outcome = connectAndDiscoverSettles(TRUE)]]
  /\ UNCHANGED <<mcpDiscoveryState, statusChangeListeners, toolRegistry, runState,
                 runServers, dispatchIdx, calls, fIn, fOut>>

\* The options mcpToTool(...).tool passes to mcpClient.request
\* (mcp-client.js:416-418): the tools/list request is made with one argument,
\* so no options object and no timeout.
mcpToTool_tool_options == [timeout |-> Absent]

\* connectAndDiscover when `await connectToMcpServer` resolves: CONNECTED is
\* published, the error hook is installed and discoverTools sends tools/list
\* (mcp-client.js:188-199, 232-233, 416-418).
connectAndDiscover_connected(r, i) ==
  /\ NoSyncSection
  /\ pipe[r][i].pc = "connectResolved"
  /\ updateMCPServerStatus(runServers[r][i].name, StatusAfterConnect)
  /\ pipe' = [pipe EXCEPT ![r][i] =
       [@ EXCEPT !.pc = "listTools", !.hook = TRUE,
                 !.listTimeout = mcpToTool_tool_options.timeout,
                 !.published = Published(@, StatusAfterConnect, "pipeline")]]
  /\ UNCHANGED <<mcpDiscoveryState, statusChangeListeners, toolRegistry, runState,
                 runServers, dispatchIdx, calls, fIn, fOut>>

\* The tools/list request resolves with listResult: tool() and discoverTools
\* run to their end (mcp-client.js:420-426, 235-262).
listToolsResolves(r, i, listResult) ==
  /\ NoSyncSection
  /\ pipe[r][i].pc = "listTools"
  /\ LET d == discoverTools(runServers[r][i].name, runServers[r][i].config,
                            <<r, i>>, listResult)
     IN pipe' = [pipe EXCEPT ![r][i] =
          [@ EXCEPT !.pc = "discoverSettled",
                    !.disc = IF d.ok THEN "ok" ELSE "error",
                    !.tools = d.tools]]
  /\ Quiet
  /\ UNCHANGED <<mcpDiscoveryState, statusChangeListeners, toolRegistry, runState,
                 runServers, dispatchIdx, calls, fIn, fOut>>

\* The tools/list request rejects (an error reply, a lost connection, the
\* request timeout): discoverTools rethrows (mcp-client.js:260-262).
listToolsRejects(r, i) ==
  /\ NoSyncSection
  /\ pipe[r][i].pc = "listTools"
  /\ pipe' = [pipe EXCEPT ![r][i] =
       [@ EXCEPT !.pc = "discoverSettled", !.disc = "error"]]
  /\ Quiet
  /\ UNCHANGED <<mcpDiscoveryState, statusChangeListeners, toolRegistry, runState,
                 runServers, dispatchIdx, calls, fIn, fOut>>

\* ToolRegistry register / baseToolRegistry.register: tools.set(tool.name, tool)
\* (client.js:79-81, reached through part_002:66-68).
registerTool_KeepsFirst(registry, tool) ==
  IF \E t \in registry : t.name = tool.name THEN registry ELSE registry \cup {tool}
registerTool(registry, tool) ==
  {t \in registry : t.name # tool.name} \cup {tool}

RECURSIVE registerAll(_, _, _)
registerAll(registry, tools, n) ==
  IF n = 0 THEN registry
  ELSE registerTool(registerAll(registry, tools, n - 1), tools[n])

\* connectAndDiscover after `await discoverTools` (mcp-client.js:200-212). The
\* loop registers the tools in order; throwAt = k > 0 is the k-th registerTool
\* call throwing. registerCalls is the sequence of tools passed to registerTool.
\* A rejected discoverTools or a throwing registerTool reaches
\* the inner catch, which calls mcpClient.close() without awaiting it, and then
\* the outer catch.
\* closeInvokedAfter is the number of statuses published for the server when
\* close was called: the inner catch runs before the outer one publishes.
ClientInInnerCatch_NotClosed == "connected"
ClientInInnerCatch == "closing"

connectAndDiscover_discovered(r, i, throwAt) ==
  /\ NoSyncSection
  /\ pipe[r][i].pc = "discoverSettled"
  /\ throwAt \in 0..Len(pipe[r][i].tools)
  /\ LET p == pipe[r][i]
         failed == p.disc = "error" \/ throwAt > 0
         done == IF throwAt > 0 THEN throwAt - 1 ELSE Len(p.tools)
         called == SubSeq(p.tools, 1, IF throwAt > 0 THEN throwAt ELSE Len(p.tools))
     IN /\ toolRegistry' = registerAll(toolRegistry, p.tools, done)
        /\ IF failed
             THEN /\ updateMCPServerStatus(runServers[r][i].name, StatusInCatch)
                  /\ pipe' = [pipe EXCEPT ![r][i] =
                       [@ EXCEPT !.pc = "settled", !.registered = done,
                                 !.registerCalls = called,
                                 !.threw = throwAt > 0,
                                 !.client = ClientInInnerCatch,
                                 !.closeInvokedAfter = Some(Len(p.published)),
                                 !.published = Published(@, StatusInCatch, "pipeline"),
                                 !.outcome = connectAndDiscoverSettles(TRUE)]]
             ELSE /\ Quiet
                  /\ pipe' = [pipe EXCEPT ![r][i] =
                       [@ EXCEPT !.pc = "settled", !.registered = done,
                                 !.registerCalls = called,
                                 !.outcome = connectAndDiscoverSettles(FALSE)]]
  /\ UNCHANGED <<mcpDiscoveryState, statusChangeListeners, runState, runServers,
                 dispatchIdx, calls, fIn, fOut>>

\* The un-awaited mcpClient.close() of line 204 completes.
clientCloseSettles(r, i) ==
  /\ NoSyncSection
  /\ pipe[r][i].client = "closing"
  /\ pipe' = [pipe EXCEPT ![r][i] = [@ EXCEPT !.client = "closed"]]
  /\ Quiet
  /\ UNCHANGED <<mcpDiscoveryState, statusChangeListeners, toolRegistry, runState,
                 runServers, dispatchIdx, calls, fIn, fOut>>

\* The asynchronous faults reported so far, over all clients.
RECURSIVE FaultsOf(_, _)
FaultsOf(pipes, n) == IF n = 0 THEN 0 ELSE pipes[n].faults + FaultsOf(pipes, n - 1)
RECURSIVE FaultsUpTo(_)
FaultsUpTo(r) == IF r = 0 THEN 0 ELSE FaultsOf(pipe[r], Len(pipe[r])) + FaultsUpTo(r - 1)
TotalFaults == FaultsUpTo(MaxRuns)

\* mcpClient.onerror (mcp-client.js:190-193): the client reports an
\* asynchronous fault to the installed hook.
onerror(r, i) ==
  /\ NoSyncSection
  /\ pipe[r][i].hook
  /\ TotalFaults < MaxFaults
  /\ updateMCPServerStatus(runServers[r][i].name, StatusOnFault)
  /\ pipe' = [pipe EXCEPT ![r][i] =
       [@ EXCEPT !.faults = @ + 1,
                 !.published = Published(@, StatusOnFault, "hook")]]
  /\ UNCHANGED <<mcpDiscoveryState, statusChangeListeners, toolRegistry, runState,
                 runServers, dispatchIdx, calls, fIn, fOut>>

\* Promise.all (mcp-client.js:139): fulfilled once every promise is, rejected
\* as soon as one is.
PromiseAllSettles_FirstSettled(r) ==
  \E i \in PipeIds(r) : pipe[r][i].outcome # "pending"
PromiseAllSettles(r) ==
  \/ \A i \in PipeIds(r) : pipe[r][i].outcome = "fulfilled"
  \/ \E i \in PipeIds(r) : pipe[r][i].outcome = "rejected"

\* discoverMcpTools after `await Promise.all` (mcp-client.js:139-143).
discoverMcpTools_finally(r) ==
  /\ NoSyncSection
  /\ runState[r] = "awaiting"
  /\ PromiseAllSettles(r)
  /\ mcpDiscoveryState' = PhaseInFinally
  /\ runState' = [runState EXCEPT ![r] =
       IF \E i \in PipeIds(r) : pipe[r][i].outcome = "rejected"
         THEN "rejected" ELSE "returned"]
  /\ Quiet
  /\ UNCHANGED <<statusChangeListeners, toolRegistry, runServers, dispatchIdx, pipe,
                 calls, fIn, fOut>>

\* ------------------------------------------------------------------ tool invocation

\* The options mcpToTool(...).execute passes to mcpClient.request
\* (mcp-client.js:429-440): the request is made with one argument, so no
\* options object and no timeout reach the protocol runtime.
mcpToTool_execute_options == [timeout |-> Absent]

\* How long the server takes to answer a call, and the request timeout the
\* protocol runtime applies when the caller passes none.
Durations == {500, 3000, 700000}
RuntimeDefaultTimeouts == {60000}

\* executeTool of the MCP-aware registry up to the request being sent
\* (part_002:82-90, mcp-client.js:464-466, 429-437), for a registered MCP tool.
executeTool(tool, duration) ==
  /\ NoSyncSection
  /\ Len(calls) < MaxCalls
  /\ tool \in toolRegistry
  /\ tool.serverName.has
  /\ calls' = Append(calls, [tool |-> tool, options |-> mcpToTool_execute_options,
                             duration |-> duration, outcome |-> "pending",
                             error |-> Absent])
  /\ Quiet
  /\ UNCHANGED <<mcpDiscoveryState, statusChangeListeners, toolRegistry, runState,
                 runServers, dispatchIdx, pipe, fIn, fOut>>

\* The tools/call request settles: by the request timeout when the answer
\* takes longer than it, otherwise with the server's result, its error reply,
\* or a transport failure. A failure is rethrown by DiscoveredMCPTool.execute
\* (mcp-client.js:468-470) and again, naming the server, by executeTool
\* (part_002:92-98).
RequestOutcomes == {"ok", "remoteError", "transportError"}

\* The catch of executeTool (part_002:92-98): the error of a tool that has a
\* serverName is replaced by one that names the tool and the server; any
\* other error is rethrown as it is.
executeTool_catch_Unannotated(tool, cause) ==
  [name |-> tool.name, serverName |-> Absent, cause |-> cause]
executeTool_catch(tool, cause) ==
  IF TruthyStr(tool.serverName)
    THEN [name |-> tool.name, serverName |-> tool.serverName, cause |-> cause]
    ELSE [name |-> tool.name, serverName |-> Absent, cause |-> cause]

requestSettles(c, runtimeDefault, answer) ==
  /\ NoSyncSection
  /\ calls[c].outcome = "pending"
  /\ LET timeout == Coalesce(calls[c].options.timeout, runtimeDefault)
         outcome == IF calls[c].duration > timeout THEN "timeout" ELSE answer
     IN calls' = [calls EXCEPT ![c] =
          [@ EXCEPT !.outcome = outcome,
                    !.error = IF outcome = "ok" THEN Absent
                              ELSE Some(executeTool_catch(calls[c].tool, outcome))]]
  /\ Quiet
  /\ UNCHANGED <<mcpDiscoveryState, statusChangeListeners, toolRegistry, runState,
                 runServers, dispatchIdx, pipe, fIn, fOut>>

\* ------------------------------------------------------------------ configuration loader

\* One environment variable whose name matched /^MCP_SERVER_([^_]+)_(.+)$/
\* (part_006:91-93): the two groups and the variable's value. A value the
\* loader looks into (digits, a comma-separated list) or that is tokenized
\* later (a command) is a sequence of characters.
EnvVar(serverName, configKey, value) ==
  [serverName |-> serverName, configKey |-> configKey, value |-> value]

\* parseInt(value, 10) on a string that begins with a decimal digit: the number
\* its leading digits spell.
Digits == <<"0", "1", "2", "3", "4", "5", "6", "7", "8", "9">>
DigitOf(c) == (CHOOSE k \in DOMAIN Digits : Digits[k] = c) - 1
RECURSIVE parseIntFrom(_, _)
parseIntFrom(chars, acc) ==
  IF chars = <<>> \/ Head(chars) \notin Range(Digits) THEN acc
  ELSE parseIntFrom(Tail(chars), acc * 10 + DigitOf(Head(chars)))
parseInt(value) == parseIntFrom(value, 0)

\* String.prototype.trim, for blanks
RECURSIVE trimStart(_)
trimStart(chars) ==
  IF chars # <<>> /\ Head(chars) = " " THEN trimStart(Tail(chars)) ELSE chars
RECURSIVE trimEnd(_)
trimEnd(chars) ==
  IF chars # <<>> /\ chars[Len(chars)] = " "
    THEN trimEnd(SubSeq(chars, 1, Len(chars) - 1)) ELSE chars
trim(chars) == trimEnd(trimStart(chars))

\* value.split(',').map(x => x.trim()) (part_006:106, 118, 121)
RECURSIVE splitFrom(_, _, _)
splitFrom(chars, word, acc) ==
  IF chars = <<>> THEN Append(acc, trim(word))
  ELSE IF Head(chars) = "," THEN splitFrom(Tail(chars), <<>>, Append(acc, trim(word)))
  ELSE splitFrom(Tail(chars), Append(word, Head(chars)), acc)
splitTrim(value) == splitFrom(value, <<>>, <<>>)

\* serverConfigs[serverName] = {} (part_006:95-97)
EmptyConfig == Config(Absent, Absent, Absent, Absent, Absent, Absent)

\* The switch of part_006:100-122 on one variable.
setFromEnv(config, configKey, value) ==
  IF configKey = "COMMAND" THEN [config EXCEPT !.command = Some(value)]
  ELSE IF configKey = "ARGS" THEN [config EXCEPT !.args = splitTrim(value)]
  ELSE IF configKey = "URL" THEN [config EXCEPT !.url = Some(value)]
  ELSE IF configKey = "HTTP_URL" THEN [config EXCEPT !.httpUrl = Some(value)]
  ELSE IF configKey = "TIMEOUT" THEN [config EXCEPT !.timeout = Some(parseInt(value))]
  ELSE IF configKey = "INCLUDE_TOOLS" THEN [config EXCEPT !.includeTools = Some(splitTrim(value))]
  ELSE IF configKey = "EXCLUDE_TOOLS" THEN [config EXCEPT !.excludeTools = Some(splitTrim(value))]
  ELSE config

HasKey(map, name) == \E i \in DOMAIN map : map[i].name = name
Lookup(map, name) == map[CHOOSE i \in DOMAIN map : map[i].name = name].config

\* The grouping loop of part_006:90-124 over the first n variables.
RECURSIVE serverConfigsOf(_, _)
serverConfigsOf(env, n) ==
  IF n = 0 THEN <<>>
  ELSE LET before == serverConfigsOf(env, n - 1)
           v == env[n]
           config == IF HasKey(before, v.serverName)
                       THEN Lookup(before, v.serverName) ELSE EmptyConfig
       IN SetKey(before, v.serverName, setFromEnv(config, v.configKey, v.value))

\* The descriptor a later source has for a name, with the fields it lacks
\* taken from the earlier one.
MergedFields(earlier, later) ==
  [f \in DOMAIN later |->
     IF f = "args" THEN (IF later.args # <<>> THEN later.args ELSE earlier.args)
     ELSE IF later[f].has THEN later[f] ELSE earlier[f]]

\* Object.assign merging the descriptors of a name field by field.
RECURSIVE ObjectAssign_PerField(_, _)
ObjectAssign_PerField(target, source) ==
  IF source = <<>> THEN target
  ELSE LET e == Head(source)
           config == IF HasKey(target, e.name)
                       THEN MergedFields(Lookup(target, e.name), e.config) ELSE e.config
       IN ObjectAssign_PerField(SetKey(target, e.name, config), Tail(source))

\* Object.assign(target, source) (part_006:125, 139, 157): every own property
\* of source is set on target, replacing the value of a key target has.
RECURSIVE ObjectAssign(_, _)
ObjectAssign(target, source) ==
  IF source = <<>> THEN target
  ELSE ObjectAssign(SetKey(target, Head(source).name, Head(source).config), Tail(source))

\* loadFromEnvironment (part_006:82-126)
loadFromEnvironment(configs, env) ==
  ObjectAssign(configs, serverConfigsOf(env, Len(env)))

\* A configuration file: whether it exists, and what JSON.parse makes of its
\* text: a SyntaxError ("invalid"), null, or an object with or without a
\* servers property.
File(exists, json, servers) == [exists |-> exists, json |-> json, servers |-> servers]
MissingFile == File(FALSE, "invalid", Absent)
InvalidFile == File(TRUE, "invalid", Absent)
NullFile == File(TRUE, "null", Absent)
ObjectFile(servers) == File(TRUE, "object", servers)

\* The catch block of part_006:141-143 and 159-161: a warning is logged and
\* the loader returns normally, configs as they were.
WarnAndReturn_Rethrows(configs) == [ok |-> FALSE, configs |-> configs]
WarnAndReturn(configs) == [ok |-> TRUE, configs |-> configs]

\* loadFromHomeConfig (part_006:133-145). JSON.parse throws on invalid text
\* and reading .servers of null throws; both are caught.
loadFromHomeConfig(configs, file) ==
  IF ~file.exists THEN [ok |-> TRUE, configs |-> configs]
  ELSE IF file.json \in {"invalid", "null"} THEN WarnAndReturn(configs)
  ELSE IF file.servers.has THEN [ok |-> TRUE, configs |-> ObjectAssign(configs, file.servers.val)]
  ELSE [ok |-> TRUE, configs |-> configs]

\* loadFromLocalConfig (part_006:151-163)
loadFromLocalConfig(configs, file) ==
  IF ~file.exists THEN [ok |-> TRUE, configs |-> configs]
  ELSE IF file.json \in {"invalid", "null"} THEN WarnAndReturn(configs)
  ELSE IF file.servers.has THEN [ok |-> TRUE, configs |-> ObjectAssign(configs, file.servers.val)]
  ELSE [ok |-> TRUE, configs |-> configs]

\* loadMcpConfigurations (part_006:62-75): an exception leaving a loader would
\* leave loadMcpConfigurations too.
loadMcpConfigurations(env, home, local) ==
  LET fromEnv == loadFromEnvironment(<<>>, env)
      fromHome == loadFromHomeConfig(fromEnv, home)
      fromLocal == loadFromLocalConfig(fromHome.configs, local)
  IN IF ~fromHome.ok THEN fromHome ELSE fromLocal

\* ------------------------------------------------------------------ specifications

\* Every step of call r after its entry, and with the entry for arguments
\* drawn from inputs.
PipelineNext(r) ==
  \/ connectAndDiscover_start(r)
  \/ \E i \in PipeIds(r) : connectToMcpServer_connect(r, i)
  \/ \E i \in PipeIds(r) : connectResolves(r, i)
  \/ \E i \in PipeIds(r) : \E kind \in ConnectFailures : connectRejects(r, i, kind)
  \/ \E i \in PipeIds(r) : transportCloseSettles(r, i)
  \/ \E i \in PipeIds(r) : connectAndDiscover_connectFailed(r, i)
  \/ \E i \in PipeIds(r) : connectAndDiscover_connected(r, i)
  \/ \E i \in PipeIds(r) : \E listResult \in ListResults : listToolsResolves(r, i, listResult)
  \/ \E i \in PipeIds(r) : listToolsRejects(r, i)
  \/ \E i \in PipeIds(r) : \E throwAt \in 0..MaxDecls : connectAndDiscover_discovered(r, i, throwAt)
  \/ \E i \in PipeIds(r) : clientCloseSettles(r, i)
  \/ discoverMcpTools_finally(r)
  \/ \E i \in PipeIds(r) : onerror(r, i)

DiscoveryNext(r, inputs) ==
  \/ \E input \in inputs : discoverMcpTools(r, input)
  \/ PipelineNext(r)

\* One discoverMcpTools call, as the client's setupTools makes it.
Next == DiscoveryNext(1, RunInputs)

Spec == Init /\ [][Next]_vars

\* One call with status listeners subscribing and unsubscribing at any time.
ListenerInputs ==
  { RunInput(<<Entry("a", CfgA), Entry("b", CfgB)>>, Absent),
    RunInput(<<Entry("mcp", CfgMcp), Entry("none", CfgNone)>>, Some(<<"n", " ", "s">>)) }

NextListeners ==
  \/ DiscoveryNext(1, ListenerInputs)
  \/ \E l \in Listeners : addMCPStatusChangeListener(l)
  \/ \E l \in Listeners : removeMCPStatusChangeListener(l)

SpecListeners == Init /\ [][NextListeners]_vars

\* Several discoverMcpTools calls that may overlap in time.
NextOverlap == \E r \in Runs : DiscoveryNext(r, OverlapInputs)

SpecOverlap == Init /\ [][NextOverlap]_vars

\* One discoverMcpTools call and invocations of the tools it registered.
InvokeInputs ==
  { RunInput(<<Entry("a", CfgA), Entry("b", CfgB)>>, Absent) }

NextInvoke ==
  \/ DiscoveryNext(1, InvokeInputs)
  \/ \E tool \in toolRegistry : \E duration \in Durations : executeTool(tool, duration)
  \/ \E c \in DOMAIN calls : \E runtimeDefault \in RuntimeDefaultTimeouts :
       \E answer \in RequestOutcomes : requestSettles(c, runtimeDefault, answer)

SpecInvoke == Init /\ [][NextInvoke]_vars

\* Call 1 keeps making progress: every continuation that is ready runs, and
\* every request the pipelines wait for settles (connect by its timeout at the
\* latest, tools/list by the runtime's request timeout, close at once).
Progress(r) ==
  \/ connectAndDiscover_start(r)
  \/ \E i \in PipeIds(r) : connectToMcpServer_connect(r, i)
  \/ \E i \in PipeIds(r) : connectResolves(r, i)
  \/ \E i \in PipeIds(r) : \E kind \in ConnectFailures : connectRejects(r, i, kind)
  \/ \E i \in PipeIds(r) : transportCloseSettles(r, i)
  \/ \E i \in PipeIds(r) : connectAndDiscover_connectFailed(r, i)
  \/ \E i \in PipeIds(r) : connectAndDiscover_connected(r, i)
  \/ \E i \in PipeIds(r) : \E listResult \in ListResults : listToolsResolves(r, i, listResult)
  \/ \E i \in PipeIds(r) : listToolsRejects(r, i)
  \/ \E i \in PipeIds(r) : \E throwAt \in 0..MaxDecls : connectAndDiscover_discovered(r, i, throwAt)
  \/ discoverMcpTools_finally(r)

FairSpec == Init /\ [][Next]_vars /\ WF_vars(Progress(1))

\* discoverTools on its own: the descriptor's filters and the server's answer
\* range over every combination within the bounds.
IncludePool == {NameXsub, NameXY, NameY}
ExcludePool == {NameX, NameY}
DeclPool ==
  { [name |-> Absent, description |-> Some("d")],
    [name |-> Some(<<>>), description |-> Absent],
    DeclX, DeclY }

OptionalSeqs(S, n) == {Absent} \cup {Some(q) : q \in SeqsUpTo(S, n)}

FilterInputs ==
  { [mcpServerName |-> "a",
     mcpServerConfig |-> Config(Absent, Absent, Some(<<"n">>), timeout, includeTools, excludeTools),
     listResult |-> listResult] :
      timeout \in {Absent, Some(1000)},
      includeTools \in OptionalSeqs(IncludePool, MaxInclude),
      excludeTools \in OptionalSeqs(ExcludePool, MaxExclude),
      listResult \in {[isArray |-> FALSE, tools |-> <<>>]}
                       \cup {[isArray |-> TRUE, tools |-> q] : q \in SeqsUpTo(DeclPool, MaxDecls)} }

InitFilter ==
  /\ mcpDiscoveryState = NOT_STARTED
  /\ mcpServerStatusesInternal = [n \in ServerNames |-> Absent]
  /\ statusChangeListeners = <<>>
  /\ lastNotified = <<>>
  /\ lastSet = Absent
  /\ miniGeminiClient = Absent
  /\ toolRegistry = LocalTools
  /\ runState = [r \in Runs |-> "idle"]
  /\ runServers = [r \in Runs |-> <<>>]
  /\ dispatchIdx = [r \in Runs |-> 0]
  /\ pipe = [r \in Runs |-> <<>>]
  /\ calls = <<>>
  /\ fIn \in {Some(x) : x \in FilterInputs}
  /\ fOut = Absent

\* One evaluation of discoverTools (mcp-client.js:226-263): the decision of
\* isEnabled for each reported operation, and what the function returns.
discoverTools_call ==
  /\ fIn.has
  /\ ~fOut.has
  /\ fOut' = Some(
       [enabled |-> [k \in DOMAIN fIn.val.listResult.tools |->
                       isEnabled(fIn.val.listResult.tools[k], fIn.val.mcpServerConfig)],
        result |-> discoverTools(fIn.val.mcpServerName, fIn.val.mcpServerConfig,
                                 <<0, 0>>, fIn.val.listResult)])
  /\ UNCHANGED <<mcpDiscoveryState, mcpServerStatusesInternal, statusChangeListeners,
                 lastNotified, lastSet, miniGeminiClient, toolRegistry, runState, runServers, dispatchIdx,
                 pipe, calls, fIn>>

NextFilter == discoverTools_call

SpecFilter == InitFilter /\ [][NextFilter]_vars

\* The status registry on its own: subscribe, unsubscribe and status sets in
\* any order.
NotifyServers == {"a", "b"}
NotifyStatuses == {CONNECTING, CONNECTED, DISCONNECTED}

NextNotify ==
  \/ \E l \in Listeners : addMCPStatusChangeListener(l)
  \/ \E l \in Listeners : removeMCPStatusChangeListener(l)
  \/ \E serverName \in NotifyServers : \E status \in NotifyStatuses :
       \E reaction \in ReactionsOfOne :
         updateMCPServerStatus_call(serverName, status, reaction)

SpecNotify == Init /\ [][NextNotify]_vars

\* loadMcpConfigurations on its own, for some environments and some contents
\* of the two configuration files.
EnvChoices ==
  << <<>>,
     <<EnvVar("X", "COMMAND", <<"n">>), EnvVar("X", "TIMEOUT", <<"5", "0">>)>>,
     <<EnvVar("X", "URL", "http://e/sse"), EnvVar("Y", "OTHER", <<"v">>)>>,
     <<EnvVar("X", "INCLUDE_TOOLS", <<"x", ",", " ", "y">>),
       EnvVar("Y", "HTTP_URL", "http://y/mcp"), EnvVar("X", "TIMEOUT", <<"7">>)>> >>

FileChoices ==
  << MissingFile, InvalidFile, NullFile, ObjectFile(Absent),
     ObjectFile(Some(<<Entry("X", Config(Absent, Some("http://b/sse"), Absent, Absent, Absent,
                                          Some(<<NameX>>)))>>)),
     ObjectFile(Some(<<Entry("Z", Config(Some("http://c/mcp"), Absent, Absent, Some(9), Absent, Absent)),
                       Entry("X", Config(Absent, Absent, Some(<<"m">>), Absent, Absent,
                                          Absent))>>)) >>

InitLoad ==
  /\ mcpDiscoveryState = NOT_STARTED
  /\ mcpServerStatusesInternal = [n \in ServerNames |-> Absent]
  /\ statusChangeListeners = <<>>
  /\ lastNotified = <<>>
  /\ lastSet = Absent
  /\ miniGeminiClient = Absent
  /\ toolRegistry = LocalTools
  /\ runState = [r \in Runs |-> "idle"]
  /\ runServers = [r \in Runs |-> <<>>]
  /\ dispatchIdx = [r \in Runs |-> 0]
  /\ pipe = [r \in Runs |-> <<>>]
  /\ calls = <<>>
  /\ \E e \in DOMAIN EnvChoices : \E h \in DOMAIN FileChoices : \E l \in DOMAIN FileChoices :
       fIn = Some([env |-> EnvChoices[e], home |-> FileChoices[h], local |-> FileChoices[l]])
  /\ fOut = Absent

\* One call of loadMcpConfigurations (part_006:62-75).
loadMcpConfigurations_call ==
  /\ fIn.has
  /\ ~fOut.has
  /\ fOut' = Some(loadMcpConfigurations(fIn.val.env, fIn.val.home, fIn.val.local))
  /\ UNCHANGED <<mcpDiscoveryState, mcpServerStatusesInternal, statusChangeListeners,
                 lastNotified, lastSet, miniGeminiClient, toolRegistry, runState, runServers, dispatchIdx,
                 pipe, calls, fIn>>

NextLoad == loadMcpConfigurations_call

SpecLoad == InitLoad /\ [][NextLoad]_vars

\* populateMcpServerCommand on its own: server maps with and without an 'mcp'
\* entry, and command lines absent, empty, blank, of one or more words, and
\* with a control operator.
PopulateEntries ==
  {Entry("mcp", CfgMcp), Entry("mcp", CfgB), Entry("a", CfgA), Entry("c", CfgC)}
PopulateMaps ==
  {m \in SeqsUpTo(PopulateEntries, 2) :
     \A i, j \in DOMAIN m : m[i].name = m[j].name => i = j}
PopulateCommands ==
  {Absent, Some(<<>>), Some(<<" ">>), Some(<<"n">>), Some(<<"n", " ", "s">>),
   Some(<<"n", " ", " ", "s", " ", "t">>), Some(<<"n", "|", "s">>)}

InitPopulate ==
  /\ mcpDiscoveryState = NOT_STARTED
  /\ mcpServerStatusesInternal = [n \in ServerNames |-> Absent]
  /\ statusChangeListeners = <<>>
  /\ lastNotified = <<>>
  /\ lastSet = Absent
  /\ miniGeminiClient = Absent
  /\ toolRegistry = LocalTools
  /\ runState = [r \in Runs |-> "idle"]
  /\ runServers = [r \in Runs |-> <<>>]
  /\ dispatchIdx = [r \in Runs |-> 0]
  /\ pipe = [r \in Runs |-> <<>>]
  /\ calls = <<>>
  /\ fIn \in {Some(RunInput(m, c)) : m \in PopulateMaps, c \in PopulateCommands}
  /\ fOut = Absent

\* One call of populateMcpServerCommand (mcp-client.js:146-163).
populateMcpServerCommand_call ==
  /\ fIn.has
  /\ ~fOut.has
  /\ fOut' = Some(populateMcpServerCommand(fIn.val.mcpServers, fIn.val.mcpServerCommand))
  /\ UNCHANGED <<mcpDiscoveryState, mcpServerStatusesInternal, statusChangeListeners,
                 lastNotified, lastSet, miniGeminiClient, toolRegistry, runState, runServers, dispatchIdx,
                 pipe, calls, fIn>>

NextPopulate == populateMcpServerCommand_call

SpecPopulate == InitPopulate /\ [][NextPopulate]_vars

\* The registry on its own, from the empty Map of its construction: local tools
\* and tools of two servers are registered in any order, some under one name.
RegistryTools ==
  { LocalTool(<<"r">>), LocalTool(NameX),
    DiscoveredMCPTool(<<1, 1>>, "a", NameX, "dx", MCP_DEFAULT_TIMEOUT_MSEC),
    DiscoveredMCPTool(<<1, 2>>, "b", NameX, "dx", 1000),
    DiscoveredMCPTool(<<1, 1>>, "a", NameY, "", MCP_DEFAULT_TIMEOUT_MSEC) }

InitRegistry ==
  /\ mcpDiscoveryState = NOT_STARTED
  /\ mcpServerStatusesInternal = [n \in ServerNames |-> Absent]
  /\ statusChangeListeners = <<>>
  /\ lastNotified = <<>>
  /\ lastSet = Absent
  /\ miniGeminiClient = Absent
  /\ toolRegistry = {}
  /\ runState = [r \in Runs |-> "idle"]
  /\ runServers = [r \in Runs |-> <<>>]
  /\ dispatchIdx = [r \in Runs |-> 0]
  /\ pipe = [r \in Runs |-> <<>>]
  /\ calls = <<>>
  /\ fIn = Absent
  /\ fOut = Some(<<>>)

\* One registerTool call on the MCP-aware registry (part_002:66-74,
\* client.js:79-81); fOut keeps the tools in the order they were passed.
registerTool_call(tool) ==
  /\ fOut.has
  /\ Len(fOut.val) < MaxRegistrations
  /\ toolRegistry' = registerTool(toolRegistry, tool)
  /\ fOut' = Some(Append(fOut.val, tool))
  /\ UNCHANGED <<mcpDiscoveryState, mcpServerStatusesInternal, statusChangeListeners,
                 lastNotified, lastSet, miniGeminiClient, runState, runServers, dispatchIdx, pipe, calls, fIn>>

NextRegistry == \E tool \in RegistryTools : registerTool_call(tool)

SpecRegistry == InitRegistry /\ [][NextRegistry]_vars

\* The chat command (cli.js:30-46): `new MiniGeminiClient(...)` and then
\* `await client.startChat()`. The constructor calls setupServicesAndTools()
\* without awaiting it (client.js:50), so the setup runs beside the chat loop.
\* What loadMcpConfigurations returns and config.mcpServerCommand:
ClientInputs ==
  { RunInput(<<Entry("a", CfgA)>>, Absent),
    RunInput(<<>>, Some(<<"n", " ", "s">>)),
    RunInput(<<>>, Absent) }

\* The lines of the user (client.js:134-164): a command or a message.
UserInputs == {"exit", "help", "hello"}

\* new ReadFileTool(), new WriteFileTool(), new MemoryTool() (client.js:118-120)
LocalToolsInOrder == <<LocalTool(<<"r">>), LocalTool(<<"w">>), LocalTool(<<"m">>)>>

\* The state once the constructor has returned and startChat has reached its
\* first `await this.getUserInput` (client.js:27-51, 126-134): setupServices is
\* at `await this.serviceManager.initialize()` (line 60), this.toolRegistry is
\* not assigned yet.
InitClient ==
  /\ mcpDiscoveryState = NOT_STARTED
  /\ mcpServerStatusesInternal = [n \in ServerNames |-> Absent]
  /\ statusChangeListeners = <<>>
  /\ lastNotified = <<>>
  /\ lastSet = Absent
  /\ toolRegistry = {}
  /\ runState = [r \in Runs |-> "idle"]
  /\ runServers = [r \in Runs |-> <<>>]
  /\ dispatchIdx = [r \in Runs |-> 0]
  /\ pipe = [r \in Runs |-> <<>>]
  /\ calls = <<>>
  /\ fIn = Absent
  /\ fOut = Absent
  /\ miniGeminiClient = Some([setup |-> "setupServices", hasToolRegistry |-> FALSE,
                              chat |-> "getUserInput", reads |-> <<>>])

\* !mcpServerCommand (part_002:20): undefined and the empty string are falsy.
Falsy(command) == ~command.has \/ command.val = <<>>

\* setupServicesAndTools after `await this.setupServices()` (client.js:53-56):
\* setupTools creates the registry, registers the local tools and calls
\* integrateMcpTools (client.js:75-123), which returns at once when nothing is
\* configured and otherwise runs discoverMcpTools up to its first await
\* (part_002:14-31).
setupTools(input) ==
  /\ miniGeminiClient.has
  /\ miniGeminiClient.val.setup = "setupServices"
  /\ toolRegistry' = registerAll({}, LocalToolsInOrder, Len(LocalToolsInOrder))
  /\ IF input.mcpServers = <<>> /\ Falsy(input.mcpServerCommand)
       THEN /\ miniGeminiClient' =
                 Some([miniGeminiClient.val EXCEPT !.setup = "done", !.hasToolRegistry = TRUE])
            /\ UNCHANGED <<mcpDiscoveryState, runState, runServers, pipe>>
       ELSE /\ miniGeminiClient' =
                 Some([miniGeminiClient.val EXCEPT !.setup = "discoverMcpTools",
                                                   !.hasToolRegistry = TRUE])
            /\ discoverMcpTools_entry(1, input)
  /\ lastNotified' = <<>>
  /\ UNCHANGED <<mcpServerStatusesInternal, lastSet, statusChangeListeners, dispatchIdx,
                 calls, fIn, fOut>>

\* integrateMcpTools after `await discoverMcpTools` (part_002:33-50): it logs
\* the tools, or catches the rejection, and setupTools returns.
RunOver(r) == runState[r] \in {"returned", "rejected"}

integrateMcpTools_settles ==
  /\ NoSyncSection
  /\ miniGeminiClient.has
  /\ miniGeminiClient.val.setup = "discoverMcpTools"
  /\ RunOver(1)
  /\ miniGeminiClient' = Some([miniGeminiClient.val EXCEPT !.setup = "done"])
  /\ lastNotified' = <<>>
  /\ UNCHANGED <<mcpDiscoveryState, mcpServerStatusesInternal, statusChangeListeners,
                 lastSet, toolRegistry, runState, runServers, dispatchIdx, pipe,
                 calls, fIn, fOut>>

\* What callGeminiAPI finds when it reads this.toolRegistry (client.js:207,
\* 212, 275).
ReadOfTools ==
  [hasToolRegistry |-> miniGeminiClient.val.hasToolRegistry,
   localTools |-> \A k \in DOMAIN LocalToolsInOrder : LocalToolsInOrder[k] \in toolRegistry,
   phase |-> mcpDiscoveryState,
   setup |-> miniGeminiClient.val.setup]

\* One turn of the loop of startChat (client.js:133-165): the line of the user
\* is a command, or a message that processMessage hands to callGeminiAPI.
\* callGeminiAPI reads this.toolRegistry.getFunctionDeclarations() (lines 207,
\* 212): with no registry yet that is a TypeError, which its catch turns into
\* an apology (265-271) and the loop goes on; otherwise the request is sent
\* with the declarations read.
startChat_input(input) ==
  /\ NoSyncSection
  /\ miniGeminiClient.has
  /\ miniGeminiClient.val.chat = "getUserInput"
  /\ LET c == miniGeminiClient.val IN
       IF input = "exit" THEN miniGeminiClient' = Some([c EXCEPT !.chat = "exited"])
       ELSE IF input = "help" THEN UNCHANGED miniGeminiClient
       ELSE /\ Len(c.reads) < MaxMessages
            /\ miniGeminiClient' =
                 Some([c EXCEPT !.reads = Append(@, ReadOfTools),
                                !.chat = IF c.hasToolRegistry THEN "sendMessage"
                                                              ELSE "getUserInput"])
  /\ lastNotified' = <<>>
  /\ UNCHANGED <<mcpDiscoveryState, mcpServerStatusesInternal, statusChangeListeners,
                 lastSet, toolRegistry, runState, runServers, dispatchIdx, pipe,
                 calls, fIn, fOut>>

\* apiClient.sendMessage settles (client.js:214, 260-271): the reply, or the
\* apology of the catch, is printed and the loop asks for the next line.
sendMessageSettles ==
  /\ NoSyncSection
  /\ miniGeminiClient.has
  /\ miniGeminiClient.val.chat = "sendMessage"
  /\ miniGeminiClient' = Some([miniGeminiClient.val EXCEPT !.chat = "getUserInput"])
  /\ lastNotified' = <<>>
  /\ UNCHANGED <<mcpDiscoveryState, mcpServerStatusesInternal, statusChangeListeners,
                 lastSet, toolRegistry, runState, runServers, dispatchIdx, pipe,
                 calls, fIn, fOut>>

NextClient ==
  \/ \E input \in ClientInputs : setupTools(input)
  \/ PipelineNext(1)
  \/ integrateMcpTools_settles
  \/ \E input \in UserInputs : startChat_input(input)
  \/ sendMessageSettles

SpecClient == InitClient /\ [][NextClient]_vars

\* createTransport on its own: every combination of the three selectors, each
\* absent, empty, or set (a URL also to a string that is no URL).
UrlPool(valid) == {Absent, Some(""), Some("bad")} \cup {Some(u) : u \in valid}
CommandPool == {Absent, Some(<<>>), Some(<<"n">>)}

TransportInputs ==
  { [mcpServerName |-> "a",
     mcpServerConfig |-> Config(httpUrl, url, command, Absent, Absent, Absent)] :
      httpUrl \in UrlPool({"http://c/mcp", "http://d/mcp"}),
      url \in UrlPool({"http://b/sse", "http://e/sse"}),
      command \in CommandPool }

InitTransport ==
  /\ mcpDiscoveryState = NOT_STARTED
  /\ mcpServerStatusesInternal = [n \in ServerNames |-> Absent]
  /\ statusChangeListeners = <<>>
  /\ lastNotified = <<>>
  /\ lastSet = Absent
  /\ miniGeminiClient = Absent
  /\ toolRegistry = LocalTools
  /\ runState = [r \in Runs |-> "idle"]
  /\ runServers = [r \in Runs |-> <<>>]
  /\ dispatchIdx = [r \in Runs |-> 0]
  /\ pipe = [r \in Runs |-> <<>>]
  /\ calls = <<>>
  /\ fIn \in {Some(x) : x \in TransportInputs}
  /\ fOut = Absent

\* One evaluation of createTransport (mcp-client.js:330-380).
createTransport_call ==
  /\ fIn.has
  /\ ~fOut.has
  /\ fOut' = Some(createTransport(fIn.val.mcpServerConfig))
  /\ UNCHANGED <<mcpDiscoveryState, mcpServerStatusesInternal, statusChangeListeners,
                 lastNotified, lastSet, miniGeminiClient, toolRegistry, runState, runServers, dispatchIdx,
                 pipe, calls, fIn>>

NextTransport == createTransport_call

SpecTransport == InitTransport /\ [][NextTransport]_vars

\* ------------------------------------------------------------------ claims

RunActive(r) == runState[r] \in {"dispatching", "awaiting"}
ServerOf(r, i) == runServers[r][i].name

ConnectFailed(p) == p.connect \in ConnectFailures
\* The server connected and discovered normally, and the registry took its tools.
Succeeded(p) == p.connect = "ok" /\ p.disc = "ok" /\ p.pc = "settled" /\ ~p.threw

\* Tool k of pipeline i of call r is in the registry, or a tool of the same
\* name that another pipeline registered has taken its place.
ToolRegistered(r, i, k) ==
  LET t == pipe[r][i].tools[k] IN
    \/ t \in toolRegistry
    \/ \E j \in PipeIds(r) : j # i /\
         \E m \in 1..pipe[r][j].registered :
           pipe[r][j].tools[m].name = t.name /\ pipe[r][j].tools[m] \in toolRegistry

C1_Post ==
  RunOver(1) =>
    /\ runState[1] = "rejected" \/
         /\ mcpDiscoveryState = COMPLETED
         /\ \A i \in PipeIds(1) :
              /\ ConnectFailed(pipe[1][i]) => getMCPServerStatus(ServerOf(1, i)) = DISCONNECTED
              /\ Succeeded(pipe[1][i]) =>
                   /\ pipe[1][i].registered = Len(pipe[1][i].tools)
                   /\ \A k \in DOMAIN pipe[1][i].tools : ToolRegistered(1, i, k)
    /\ runState[1] = "rejected" => pipe[1] = <<>>

\* C1: failure isolation. A started discoverMcpTools call returns whatever each
\* server's connect step does (error or timeout included); when it has
\* returned, the Discovery Phase is completed, every server whose connect
\* failed or timed out is disconnected, and every tool of every server that
\* connected and discovered normally has been registered.
C1_FailureIsolation ==
  /\ [] C1_Post
  /\ (RunActive(1) ~> runState[1] = "returned")

C1_Witness ==
  /\ runState[1] = "returned"
  /\ Len(pipe[1]) = 3
  /\ pipe[1][1].connect = "timeout"
  /\ getMCPServerStatus("a") = DISCONNECTED
  /\ Succeeded(pipe[1][2]) /\ Succeeded(pipe[1][3])
  /\ \A k \in DOMAIN pipe[1][2].tools : pipe[1][2].tools[k] \in toolRegistry
  /\ \A k \in DOMAIN pipe[1][3].tools : pipe[1][3].tools[k] \in toolRegistry
  /\ mcpDiscoveryState = COMPLETED

Failed(p) == p.connect \in ConnectFailures \cup {"config"} \/ p.disc = "error" \/ p.threw
LastPublished(p) == p.published[Len(p.published)].status

\* C2: no failure of a server's transport construction, connect, discovery or
\* registration step rejects discoverMcpTools: no pipeline's promise is
\* rejected, the call is rejected only when it started no pipeline at all (the
\* command line did not tokenize), and a pipeline that failed has settled with
\* disconnected as the status it published.
C2_NeverRejectsForAServer ==
  /\ \A i \in PipeIds(1) : pipe[1][i].outcome # "rejected"
  /\ runState[1] = "rejected" => pipe[1] = <<>>
  /\ \A i \in PipeIds(1) :
       (pipe[1][i].pc = "settled" /\ Failed(pipe[1][i])) =>
          /\ pipe[1][i].outcome = "fulfilled"
          /\ LastPublished(pipe[1][i]) = DISCONNECTED

C2_Witness ==
  /\ runState[1] = "returned"
  /\ Len(pipe[1]) = 3
  /\ pipe[1][1].connect = "error"
  /\ pipe[1][2].disc = "error"
  /\ pipe[1][3].threw

\* C3: within one call, every status a pipeline publishes is published with
\* the Discovery Phase in_progress, and the phase is completed (and the call
\* over) only when every pipeline of the call has settled.
C3_PhaseBrackets ==
  /\ \A i \in PipeIds(1) : \A k \in DOMAIN pipe[1][i].published :
       pipe[1][i].published[k].by = "pipeline" =>
         pipe[1][i].published[k].phase = IN_PROGRESS
  /\ (mcpDiscoveryState = COMPLETED \/ RunOver(1)) =>
       /\ RunOver(1)
       /\ mcpDiscoveryState = COMPLETED
       /\ \A i \in PipeIds(1) : pipe[1][i].pc = "settled"
  /\ pipe[1] # <<>> => mcpDiscoveryState # NOT_STARTED

C3_Witness ==
  /\ mcpDiscoveryState = COMPLETED
  /\ runState[1] = "returned"
  /\ Len(pipe[1]) = 3
  /\ Succeeded(pipe[1][1])
  /\ pipe[1][2].connect = "timeout"
  /\ pipe[1][3].disc = "error"

\* C4: the Discovery Phase is in_progress whenever a discoverMcpTools call is
\* in progress, also when two calls overlap.
C4_PhaseTracksEveryRun ==
  (\E r \in Runs : RunActive(r)) => mcpDiscoveryState = IN_PROGRESS

Statuses(p) == [k \in DOMAIN p.published |-> p.published[k].status]

\* C5: the statuses one pipeline attempt publishes are connecting, then
\* connected or disconnected, then only disconnected; disconnected directly
\* follows connecting only when the connect step raised an error.
C5_OneDirectional ==
  \A i \in PipeIds(1) :
    LET p == pipe[1][i]
        s == Statuses(p)
    IN /\ p.pc # "idle" => (Len(s) >= 1 /\ s[1] = CONNECTING)
       /\ \A k \in DOMAIN s : k >= 2 => s[k] # CONNECTING
       /\ \A k \in DOMAIN s : k >= 3 => s[k] = DISCONNECTED
       /\ (Len(s) >= 2 /\ s[2] = DISCONNECTED) => p.connect \in ConnectFailures \cup {"config"}
       /\ (Len(s) >= 2 /\ s[2] = CONNECTED) => p.connect = "ok"
       /\ (p.pc = "settled" /\ p.connect # "ok") => s = <<CONNECTING, DISCONNECTED>>

C5_Witness ==
  /\ Len(pipe[1]) = 3
  /\ Statuses(pipe[1][1]) = <<CONNECTING, CONNECTED, DISCONNECTED, DISCONNECTED>>
  /\ Statuses(pipe[1][2]) = <<CONNECTING, DISCONNECTED>>
  /\ Statuses(pipe[1][3]) = <<CONNECTING, CONNECTED>>
  /\ pipe[1][3].pc = "settled"

\* The step in which the error hook of pipeline i runs, and what it must do.
C6_FaultStep ==
  \A i \in PipeIds(1) :
    (i \in DOMAIN pipe'[1] /\ pipe'[1][i].faults = pipe[1][i].faults + 1) =>
      /\ pipe[1][i].published[2].status = CONNECTED
      /\ mcpServerStatusesInternal'[ServerOf(1, i)] = Some(DISCONNECTED)
      /\ lastNotified' =
           [k \in DOMAIN statusChangeListeners |->
              [listener |-> statusChangeListeners[k], serverName |-> ServerOf(1, i),
               status |-> DISCONNECTED]]

C6_StaysDisconnected ==
  \A i \in PipeIds(1) :
    pipe[1][i].faults > 0 => getMCPServerStatus(ServerOf(1, i)) = DISCONNECTED

OwnerConfig(tool) == runServers[tool.mcpCallableTool[1]][tool.mcpCallableTool[2]].config
PerCallTimeout(tool) == Coalesce(OwnerConfig(tool).timeout, MCP_DEFAULT_TIMEOUT_MSEC)

\* C7: every invoke request of a Proxy Tool is issued with the per-call timeout
\* of its server's descriptor, or 600000 ms when it has none, and the tool
\* stores that value.
C7_CallsCarryTimeout ==
  \A c \in DOMAIN calls :
    /\ calls[c].tool.timeout = Some(PerCallTimeout(calls[c].tool))
    /\ calls[c].options.timeout = Some(PerCallTimeout(calls[c].tool))

\* C8: a call is cut off exactly when it takes longer than the per-call
\* timeout of its server, whatever the connect timeout was.
C8_PerCallTimeoutHonored ==
  \A c \in DOMAIN calls :
    calls[c].outcome # "pending" =>
      (calls[c].outcome = "timeout" <=> calls[c].duration > PerCallTimeout(calls[c].tool))

\* The filtering rule as the specification states it.
HasName(funcDecl) == funcDecl.name.has /\ Len(funcDecl.name.val) > 0
MatchesEntry(entry, name) ==
  \/ entry = name
  \/ /\ Len(entry) > Len(name)
     /\ \A k \in 1..Len(name) : entry[k] = name[k]
     /\ entry[Len(name) + 1] = "("
KeptByRule(funcDecl, cfg) ==
  /\ HasName(funcDecl)
  /\ ~(cfg.excludeTools.has /\ funcDecl.name.val \in Range(cfg.excludeTools.val))
  /\ \/ ~cfg.includeTools.has
     \/ \E entry \in Range(cfg.includeTools.val) : MatchesEntry(entry, funcDecl.name.val)

\* C9: an operation is kept iff it has a name, the name is not in excludeTools,
\* and includeTools is absent or has an entry equal to the name or beginning
\* with the name followed by "("; an operation both lists match is dropped.
C9_FilterRule ==
  fOut.has =>
    \A k \in DOMAIN fIn.val.listResult.tools :
      fOut.val.enabled[k] <=> KeptByRule(fIn.val.listResult.tools[k], fIn.val.mcpServerConfig)

C9_Witness ==
  /\ fOut.has
  /\ fIn.val.listResult.tools = <<DeclX, DeclY>>
  /\ fIn.val.mcpServerConfig.includeTools = Some(<<NameXsub, NameY>>)
  /\ fIn.val.mcpServerConfig.excludeTools = Some(<<NameY>>)
  /\ fOut.val.enabled = <<TRUE, FALSE>>

\* The positions of the kept operations, and the j-th of them in report order.
KeptIdx == {k \in DOMAIN fIn.val.listResult.tools : fOut.val.enabled[k]}
NthKept(j) == CHOOSE k \in KeptIdx : Cardinality({m \in KeptIdx : m <= k}) = j

\* C10: discoverTools fails when the answer is no sequence or no operation is
\* kept; otherwise it returns one Proxy Tool per kept operation, in the order
\* the server reported them, and nothing else.
C10_DiscoverTools ==
  fOut.has =>
    LET in == fIn.val
        res == fOut.val.result
    IN IF ~in.listResult.isArray \/ KeptIdx = {}
         THEN ~res.ok
         ELSE /\ res.ok
              /\ Len(res.tools) = Cardinality(KeptIdx)
              /\ \A j \in DOMAIN res.tools :
                   LET funcDecl == in.listResult.tools[NthKept(j)] IN
                     /\ res.tools[j].name = funcDecl.name.val
                     /\ res.tools[j].description = Coalesce(funcDecl.description, "")
                     /\ res.tools[j].serverName = Some(in.mcpServerName)
                     /\ res.tools[j].timeout =
                          Some(Coalesce(in.mcpServerConfig.timeout, MCP_DEFAULT_TIMEOUT_MSEC))

C10_Witness ==
  /\ fOut.has
  /\ fIn.val.listResult.tools = <<DeclY, DeclX>>
  /\ fOut.val.result.ok
  /\ Len(fOut.val.result.tools) = 2
  /\ fOut.val.result.tools[1].name = NameY
  /\ fOut.val.result.tools[2].name = NameX

\* No selector is set in the descriptor (an empty string counts as not set).
NoSelector(cfg) == ~TruthyStr(cfg.httpUrl) /\ ~TruthyStr(cfg.url) /\ ~TruthySeq(cfg.command)

\* C11: for a descriptor with none of the selectors url, httpUrl and command,
\* transport construction fails: no transport object exists, connect is never
\* called (no connect timeout is ever set, the connect step is never entered),
\* nothing is discovered or registered, and the pipeline settles having
\* published connecting and then disconnected, the server's final status.
C11_NoSelectorFails ==
  \A i \in PipeIds(1) :
    LET p == pipe[1][i] IN
      (NoSelector(runServers[1][i].config) /\ p.pc # "idle") =>
        /\ p.transport = "none" /\ p.transportKind = "none"
        /\ p.pc \in {"createTransport", "connectRejected", "settled"}
        /\ p.connect \in {"pending", "config"}
        /\ ~p.connectTimeout.has
        /\ ~p.hook /\ p.tools = <<>> /\ p.registered = 0
        /\ p.pc = "settled" =>
             /\ p.connect = "config"
             /\ Statuses(p) = <<CONNECTING, DISCONNECTED>>
             /\ getMCPServerStatus(ServerOf(1, i)) = DISCONNECTED

C11_Witness ==
  /\ runState[1] = "returned"
  /\ Len(pipe[1]) = 2
  /\ ServerOf(1, 2) = "none"
  /\ NoSelector(runServers[1][2].config)
  /\ pipe[1][2].pc = "settled"
  /\ pipe[1][2].transport = "none"
  /\ getMCPServerStatus("none") = DISCONNECTED
  /\ Succeeded(pipe[1][1])

\* The selectors of the evaluated descriptor that are set, and whether the
\* URLs among them are well formed.
SetHttpUrl == TruthyStr(fIn.val.mcpServerConfig.httpUrl)
SetUrl == TruthyStr(fIn.val.mcpServerConfig.url)
SetCommand == TruthySeq(fIn.val.mcpServerConfig.command)
WellFormed(o) == o.val \notin MalformedURLs

\* C12 as stated: url is chosen first, then httpUrl, then command (for
\* descriptors whose URLs are well formed).
C12_UrlBeforeHttpUrl ==
  (fOut.has
     /\ (SetHttpUrl => WellFormed(fIn.val.mcpServerConfig.httpUrl))
     /\ (SetUrl => WellFormed(fIn.val.mcpServerConfig.url))) =>
    fOut.val.kind =
      IF SetUrl THEN "SSEClientTransport"
      ELSE IF SetHttpUrl THEN "StreamableHTTPClientTransport"
      ELSE IF SetCommand THEN "StdioClientTransport"
      ELSE "none"

\* C12 as amended: at most one transport is built, decided by the first set
\* selector in the order httpUrl, url, command: the request/response HTTP
\* transport iff httpUrl is set (and well formed), the event-stream transport
\* iff httpUrl is not set and url is (and is well formed), the subprocess
\* transport iff neither URL is set and command is.
C12_HttpUrlBeforeUrl ==
  fOut.has =>
    LET cfg == fIn.val.mcpServerConfig
        out == fOut.val
    IN /\ out.kind \in {"StreamableHTTPClientTransport", "SSEClientTransport",
                         "StdioClientTransport", "none"}
       /\ out.ok <=> out.kind # "none"
       /\ out.kind = "StreamableHTTPClientTransport" <=>
            (SetHttpUrl /\ WellFormed(cfg.httpUrl))
       /\ out.kind = "SSEClientTransport" <=>
            (~SetHttpUrl /\ SetUrl /\ WellFormed(cfg.url))
       /\ out.kind = "StdioClientTransport" <=>
            (~SetHttpUrl /\ ~SetUrl /\ SetCommand)

C12_Witness ==
  /\ fOut.has
  /\ fIn.val.mcpServerConfig.httpUrl = Some("http://c/mcp")
  /\ fIn.val.mcpServerConfig.url = Some("http://b/sse")
  /\ fIn.val.mcpServerConfig.command = Some(<<"n">>)
  /\ fOut.val = Built("StreamableHTTPClientTransport")

\* The listener calls a status set owes: one per subscription at the moment of
\* the set, in subscription order, each with the name and status that were set.
CallsOwed(set) ==
  [k \in DOMAIN set.subscribed |->
     [listener |-> set.subscribed[k], serverName |-> set.serverName, status |-> set.status]]
CallsMade(set) ==
  [k \in DOMAIN set.calls |->
     [listener |-> set.calls[k].listener, serverName |-> set.calls[k].serverName,
      status |-> set.calls[k].status]]

\* C13: every status set calls exactly the listeners subscribed at the moment
\* of the set, once per subscription and in subscription order, also when a
\* listener subscribes or unsubscribes while it is being notified (so two sets
\* in a row deliver two calls, in order, to a subscribed listener).
C13_NotifiesSubscribed ==
  lastSet.has => CallsMade(lastSet.val) = CallsOwed(lastSet.val)

\* A step changes what getMCPServerStatus answers for a name only by being a
\* status set for that name, and then to the status that was set.
C14_OnlySetsChange ==
  \A n \in ServerNames :
    Coalesce(mcpServerStatusesInternal'[n], DISCONNECTED) # getMCPServerStatus(n) =>
      /\ lastSet'.has
      /\ lastSet'.val.serverName = n
      /\ Coalesce(mcpServerStatusesInternal'[n], DISCONNECTED) = lastSet'.val.status

\* After a status set, and until the next one, the name that was set answers
\* with the status that was set, and every listener the set called read that
\* status during its call.
C14_LatestSetIsRead ==
  lastSet.has =>
    /\ getMCPServerStatus(lastSet.val.serverName) = lastSet.val.status
    /\ \A k \in DOMAIN lastSet.val.calls : lastSet.val.calls[k].seen = lastSet.val.status

\* C14: getMCPServerStatus answers disconnected for every name that was never
\* set and otherwise the status of the most recent set for that name, and the
\* stored status is the new one already while the listeners are notified.
C14_StatusIsLastSet ==
  /\ \A n \in ServerNames : getMCPServerStatus(n) = DISCONNECTED
  /\ [][C14_OnlySetsChange]_vars
  /\ []C14_LatestSetIsRead

C14_Witness ==
  /\ lastSet.has
  /\ lastSet.val.serverName = "a" /\ lastSet.val.status = CONNECTED
  /\ Len(lastSet.val.calls) = 2
  /\ \A k \in DOMAIN lastSet.val.calls : lastSet.val.calls[k].seen = CONNECTED
  /\ getMCPServerStatus("a") = CONNECTED
  /\ mcpServerStatusesInternal["b"] = Some(CONNECTING)
  /\ ~mcpServerStatusesInternal["c"].has /\ getMCPServerStatus("c") = DISCONNECTED

\* What each source of the evaluated call contributes: the descriptors grouped
\* from the environment, and the servers object of a file that was read.
NamesOf(map) == {map[i].name : i \in DOMAIN map}
FromEnv == serverConfigsOf(fIn.val.env, Len(fIn.val.env))
ServersOf(file) ==
  IF file.exists /\ file.json = "object" /\ file.servers.has THEN file.servers.val ELSE <<>>
FromHome == ServersOf(fIn.val.home)
FromLocal == ServersOf(fIn.val.local)

\* C15: the resolved map has exactly the names of the three sources, one entry
\* each; a name's descriptor is the whole descriptor of the last source that
\* names it, in the order environment, user-scope file, project-scope file, so
\* no field of an overridden descriptor survives and a server named by one
\* source only is unchanged.
C15_MergePrecedence ==
  fOut.has =>
    LET configs == fOut.val.configs IN
      /\ NamesOf(configs) = NamesOf(FromEnv) \cup NamesOf(FromHome) \cup NamesOf(FromLocal)
      /\ \A i, j \in DOMAIN configs : configs[i].name = configs[j].name => i = j
      /\ \A name \in NamesOf(configs) :
           Lookup(configs, name) =
             IF HasKey(FromLocal, name) THEN Lookup(FromLocal, name)
             ELSE IF HasKey(FromHome, name) THEN Lookup(FromHome, name)
             ELSE Lookup(FromEnv, name)

C15_Witness ==
  /\ fOut.has
  /\ fIn.val.env = EnvChoices[4]
  /\ fIn.val.home = FileChoices[5]
  /\ fIn.val.local = FileChoices[6]
  /\ NamesOf(fOut.val.configs) = {"X", "Y", "Z"}
  /\ Lookup(fOut.val.configs, "X") =
       Config(Absent, Absent, Some(<<"m">>), Absent, Absent, Absent)
  /\ Lookup(fOut.val.configs, "Y") =
       Config(Some("http://y/mcp"), Absent, Absent, Absent, Absent, Absent)

\* A file that is present and whose text is no JSON.
Unparsable(file) == file.exists /\ file.json = "invalid"

\* The map two sources give when only they are read, the later one winning.
Overlay(earlier, later, configs) ==
  /\ NamesOf(configs) = NamesOf(earlier) \cup NamesOf(later)
  /\ \A name \in NamesOf(configs) :
       Lookup(configs, name) =
         IF HasKey(later, name) THEN Lookup(later, name) ELSE Lookup(earlier, name)

\* C18: when a configuration file is present but unparsable, the call returns
\* normally, the file contributes no server, and the result is the overlay of
\* the sources that were read (environment, then the other file).
C18_UnparsableIsSkipped ==
  fOut.has =>
    /\ (Unparsable(fIn.val.home) \/ Unparsable(fIn.val.local)) => fOut.val.ok
    /\ Unparsable(fIn.val.home) => Overlay(FromEnv, FromLocal, fOut.val.configs)
    /\ Unparsable(fIn.val.local) => Overlay(FromEnv, FromHome, fOut.val.configs)

C18_Witness ==
  /\ fOut.has
  /\ fIn.val.env = EnvChoices[2]
  /\ fIn.val.home = InvalidFile
  /\ fIn.val.local = FileChoices[6]
  /\ fOut.val.ok
  /\ NamesOf(fOut.val.configs) = {"X", "Z"}
  /\ Lookup(fOut.val.configs, "X").command = Some(<<"m">>)

\* The words of a command line: its maximal runs of non-blank characters.
RECURSIVE WordsFrom(_, _)
WordsFrom(chars, k) ==
  IF k > Len(chars) THEN <<>>
  ELSE IF chars[k] = " " THEN WordsFrom(chars, k + 1)
  ELSE LET end == CHOOSE e \in k..Len(chars) :
                    /\ \A m \in k..e : chars[m] # " "
                    /\ (e = Len(chars) \/ chars[e + 1] = " ")
       IN <<SubSeq(chars, k, end)>> \o WordsFrom(chars, end + 1)

\* C16: with an ad-hoc command that tokenizes and a map that has a server
\* 'mcp', the resulting 'mcp' entry has the first token as command, the other
\* tokens as args and no other field, every other entry is as it was and none
\* is added; without an ad-hoc command the map is returned as it was.
C16_AdHocOverride ==
  fOut.has =>
    LET in == fIn.val
        out == fOut.val
        words == WordsFrom(in.mcpServerCommand.val, 1)
    IN /\ (TruthySeq(in.mcpServerCommand) /\ out.ok /\ HasKey(in.mcpServers, "mcp")) =>
            /\ Lookup(out.mcpServers, "mcp") =
                 [httpUrl |-> Absent, url |-> Absent,
                  command |-> IF words = <<>> THEN Absent ELSE Some(words[1]),
                  args |-> IF words = <<>> THEN <<>> ELSE Tail(words),
                  timeout |-> Absent, includeTools |-> Absent, excludeTools |-> Absent]
            /\ Len(out.mcpServers) = Len(in.mcpServers)
            /\ \A i \in DOMAIN in.mcpServers :
                 in.mcpServers[i].name # "mcp" => out.mcpServers[i] = in.mcpServers[i]
       /\ ~TruthySeq(in.mcpServerCommand) => (out.ok /\ out.mcpServers = in.mcpServers)

C16_Witness ==
  /\ fOut.has
  /\ fIn.val.mcpServers = <<Entry("mcp", CfgMcp), Entry("a", CfgA)>>
  /\ fIn.val.mcpServerCommand = Some(<<"n", " ", " ", "s", " ", "t">>)
  /\ fOut.val.ok
  /\ fOut.val.mcpServers[1].config.command = Some(<<"n">>)
  /\ fOut.val.mcpServers[1].config.args = <<(<<"s">>), (<<"t">>)>>
  /\ ~fOut.val.mcpServers[1].config.httpUrl.has
  /\ ~fOut.val.mcpServers[1].config.timeout.has
  /\ fOut.val.mcpServers[2] = Entry("a", CfgA)

\* A discoverMcpTools call whose command line does not tokenize: what the call
\* itself does.
C17_FailingCall ==
  \A input \in RunInputs :
    (discoverMcpTools(1, input)
       /\ ~populateMcpServerCommand(input.mcpServers, input.mcpServerCommand).ok) =>
      /\ runState'[1] = "rejected"
      /\ mcpDiscoveryState' = COMPLETED
      /\ pipe'[1] = <<>>
      /\ lastNotified' = <<>>
      /\ mcpServerStatusesInternal' = mcpServerStatusesInternal
      /\ toolRegistry' = toolRegistry

\* After such a call nothing follows: no pipeline exists, no status was ever
\* published and the registry holds the local tools only.
C17_NothingStarted ==
  runState[1] = "rejected" =>
    /\ pipe[1] = <<>>
    /\ mcpDiscoveryState = COMPLETED
    /\ \A n \in ServerNames : ~mcpServerStatusesInternal[n].has
    /\ toolRegistry = LocalTools

\* C17: when the ad-hoc command does not tokenize, discoverMcpTools is
\* rejected, starts no pipeline (no status is published and no tool
\* registered, though the map has a valid server) and leaves the Discovery
\* Phase completed.
C17_TokenizeFailureIsFatal == [][C17_FailingCall]_vars /\ []C17_NothingStarted

C17_Witness ==
  /\ runState[1] = "rejected"
  /\ runServers[1] = <<Entry("a", CfgA)>>
  /\ createTransport(runServers[1][1].config).ok
  /\ pipe[1] = <<>>
  /\ mcpDiscoveryState = COMPLETED

\* The server whose pipeline discovered a registered MCP tool.
OwnerName(tool) == ServerOf(tool.mcpCallableTool[1], tool.mcpCallableTool[2])

CallFailed(call) == call.outcome \notin {"pending", "ok"}

\* The error of every failed invocation names the server that owns the tool.
C19_Attributed ==
  \A c \in DOMAIN calls :
    CallFailed(calls[c]) =>
      /\ calls[c].error.has
      /\ calls[c].error.val.serverName = Some(OwnerName(calls[c].tool))
      /\ calls[c].error.val.name = calls[c].tool.name

\* The step in which an invocation fails leaves statuses, phase and registry
\* as they were.
C19_FailureStep ==
  \A c \in DOMAIN calls :
    (calls[c].outcome = "pending" /\ CallFailed(calls'[c])) =>
      /\ mcpServerStatusesInternal' = mcpServerStatusesInternal
      /\ mcpDiscoveryState' = mcpDiscoveryState
      /\ toolRegistry' = toolRegistry

\* C19: a failing invocation of a registered MCP tool through executeTool is
\* rethrown to the invoker with the owning server's name, and changes no
\* server status, not the Discovery Phase and not the registry.
C19_FailurePropagates == []C19_Attributed /\ [][C19_FailureStep]_vars

C19_Witness ==
  /\ Len(calls) = 1
  /\ calls[1].outcome = "remoteError"
  /\ calls[1].error.val.serverName = Some("b")
  /\ calls[1].tool \in toolRegistry
  /\ getMCPServerStatus("b") = CONNECTED
  /\ mcpDiscoveryState = COMPLETED

\* C20: when discoverMcpTools has completed, the registry holds no tool whose
\* serverName is a server whose pipeline failed (at transport construction,
\* connect, discovery or registration).
C20_FailedContributesNothing ==
  RunOver(1) =>
    \A i \in PipeIds(1) :
      Failed(pipe[1][i]) =>
        ~\E t \in toolRegistry : t.serverName = Some(ServerOf(1, i))

\* The positions of the registrations made under a name.
RegisteredUnder(name) == {k \in DOMAIN fOut.val : fOut.val[k].name = name}
Latest(S) == CHOOSE k \in S : \A m \in S : m <= k

\* C21: after any sequence of registrations the registry holds, for every
\* name, exactly the tool registered last under that name and nothing under a
\* name never registered, whether the tools are local or from a server.
C21_LastWriteWins ==
  /\ \A t \in toolRegistry : RegisteredUnder(t.name) # {}
  /\ \A k \in DOMAIN fOut.val :
       {t \in toolRegistry : t.name = fOut.val[k].name}
         = {fOut.val[Latest(RegisteredUnder(fOut.val[k].name))]}

C21_Witness ==
  /\ Len(fOut.val) = 3
  /\ fOut.val[1] = LocalTool(NameX)
  /\ fOut.val[2].serverName = Some("a") /\ fOut.val[2].name = NameX
  /\ fOut.val[3].serverName = Some("b") /\ fOut.val[3].name = NameX
  /\ toolRegistry = {fOut.val[3]}

\* C22: the connection handshake and the tools/list request of every pipeline
\* are each issued with an explicit timeout: while either is awaited, the
\* pipeline has passed a timeout for it.
C22_RequestsCarryTimeout ==
  \A r \in Runs : \A i \in PipeIds(r) :
    /\ pipe[r][i].pc = "connect" => pipe[r][i].connectTimeout.has
    /\ pipe[r][i].pc = "listTools" => pipe[r][i].listTimeout.has

\* C23: in every pipeline whose handshake failed, by an error or by the
\* timeout, close has been invoked on the transport, and it has completed
\* once the failure has left the connect step: until then the pipeline waits
\* inside connectToMcpServer and has published no disconnected status.
C23_TransportClosedFirst ==
  \A r \in Runs : \A i \in PipeIds(r) :
    LET p == pipe[r][i] IN
      ConnectFailed(p) =>
        /\ p.transport \in {"closing", "closed"}
        /\ p.transport = "closing" =>
             /\ p.pc = "transportClose"
             /\ \A k \in DOMAIN p.published : p.published[k].status # DISCONNECTED

C23_Witness ==
  \E i \in PipeIds(1) : \E j \in PipeIds(1) :
    /\ pipe[1][i].connect = "timeout" /\ pipe[1][i].pc = "settled"
    /\ pipe[1][i].transport = "closed" /\ LastPublished(pipe[1][i]) = DISCONNECTED
    /\ pipe[1][j].connect = "error" /\ pipe[1][j].pc = "transportClose"

\* A pipeline whose connect succeeded and whose discovery then failed.
DiscoveryFailed(p) == p.connect = "ok" /\ p.disc = "error"

\* The step in which pipeline i of call r leaves its failed discovery.
C24_FailureStep(r, i) ==
  /\ pipe[r][i].pc = "discoverSettled"
  /\ pipe[r][i].disc = "error"
  /\ pipe'[r][i].pc = "settled"

C24_SiblingsUntouched(r, i) ==
  /\ \A j \in PipeIds(r) : j # i => pipe'[r][j] = pipe[r][j]
  /\ \A n \in ServerNames :
       n # ServerOf(r, i) => mcpServerStatusesInternal'[n] = mcpServerStatusesInternal[n]
  /\ UNCHANGED <<toolRegistry, runState, mcpDiscoveryState, dispatchIdx>>

\* C24: when discovery fails after a successful connect, the pipeline has
\* invoked close on the client by the time it terminates, it invoked it before
\* publishing anything after connected (its disconnected status comes after
\* the call of close), and the step changes nothing of the sibling pipelines,
\* of their servers' statuses, of the registry or of the run.
C24_ClientClosedOnDiscoveryFailure ==
  /\ [](\A r \in Runs : \A i \in PipeIds(r) :
          LET p == pipe[r][i] IN
            (DiscoveryFailed(p) /\ p.pc = "settled") =>
              /\ p.client \in {"closing", "closed"}
              /\ p.closeInvokedAfter.has
              /\ \A k \in DOMAIN p.published :
                   p.published[k].by = "pipeline" =>
                     (k > p.closeInvokedAfter.val <=> p.published[k].status = DISCONNECTED))
  /\ [][\A r \in Runs : \A i \in PipeIds(r) :
          C24_FailureStep(r, i) => C24_SiblingsUntouched(r, i)]_vars

C24_Witness ==
  \E i \in PipeIds(1) : \E j \in PipeIds(1) :
    /\ DiscoveryFailed(pipe[1][i]) /\ pipe[1][i].pc = "settled"
    /\ pipe[1][i].client = "closing"
    /\ Succeeded(pipe[1][j])
    /\ pipe[1][j].registered > 0

\* The statuses the pipeline itself published, without those of the error hook.
ByPipeline(p) == SelectSeq(p.published, LAMBDA e : e.by = "pipeline")

\* Registration comes after the connected status and the return of discovery,
\* and a pipeline that registered every tool published nothing after connected.
C25_StepsInOrder(p) ==
  /\ p.registerCalls # <<>> =>
       /\ p.disc = "ok"
       /\ Len(ByPipeline(p)) >= 2
       /\ ByPipeline(p)[1].status = CONNECTING
       /\ ByPipeline(p)[2].status = CONNECTED
  /\ (p.pc = "settled" /\ p.disc = "ok" /\ p.registered = Len(p.tools)) =>
       [k \in DOMAIN ByPipeline(p) |-> ByPipeline(p)[k].status] = <<CONNECTING, CONNECTED>>

\* C25 as stated: the steps of a pipeline are sequential, and once the loop
\* over the discovered tools is over each of them has received exactly one
\* registerTool call, in discovery order.
C25_OneCallPerTool ==
  \A r \in Runs : \A i \in PipeIds(r) :
    LET p == pipe[r][i] IN
      /\ C25_StepsInOrder(p)
      /\ (p.pc = "settled" /\ p.disc = "ok") => p.registerCalls = p.tools

\* C25, amended: the steps of a pipeline are sequential; the registerTool
\* calls are made in discovery order, one per tool and none twice, up to and
\* including the first call that throws; when none throws, each discovered
\* tool has received exactly one call.
C25_OneCallPerToolUntilThrow ==
  \A r \in Runs : \A i \in PipeIds(r) :
    LET p == pipe[r][i] IN
      /\ C25_StepsInOrder(p)
      /\ Len(p.registerCalls) <= Len(p.tools)
      /\ p.registerCalls = SubSeq(p.tools, 1, Len(p.registerCalls))
      /\ (p.pc = "settled" /\ p.disc = "ok" /\ ~p.threw) => p.registerCalls = p.tools
      /\ (p.pc = "settled" /\ p.threw) => Len(p.registerCalls) = p.registered + 1

C25_Witness ==
  \E i \in PipeIds(1) : \E j \in PipeIds(1) :
    /\ Succeeded(pipe[1][i]) /\ pipe[1][i].tools # <<>>
    /\ pipe[1][i].registerCalls = pipe[1][i].tools
    /\ pipe[1][j].threw /\ Len(pipe[1][j].registerCalls) < Len(pipe[1][j].tools)

\* C26: when discoverMcpTools has returned and no client has reported an
\* asynchronous fault, every server it handled is connected if its connect,
\* discovery and registration all succeeded and disconnected otherwise; none
\* is left in connecting.
C26_FinalStatuses ==
  (runState[1] = "returned" /\ TotalFaults = 0) =>
    \A i \in PipeIds(1) :
      /\ pipe[1][i].pc = "settled"
      /\ mcpServerStatusesInternal[ServerOf(1, i)] =
           Some(IF Succeeded(pipe[1][i]) THEN CONNECTED ELSE DISCONNECTED)

C26_Witness ==
  /\ runState[1] = "returned" /\ TotalFaults = 0
  /\ \E i \in PipeIds(1) : \E j \in PipeIds(1) : \E k \in PipeIds(1) :
       /\ Succeeded(pipe[1][i])
       /\ DiscoveryFailed(pipe[1][j])
       /\ ConnectFailed(pipe[1][k])

\* C27: a pipeline registers a server's tools only while that server's status
\* is connected: every step in which a pipeline passes tools to registerTool
\* starts in a state where the status of its server is connected, so after a
\* fault has set the server to disconnected none of its tools is registered.
C27_RegistersOnlyWhileConnected ==
  [][\A r \in Runs : \A i \in PipeIds(r) :
       (i \in DOMAIN pipe'[r] /\ pipe[r][i].registerCalls = <<>>
                              /\ pipe'[r][i].registerCalls # <<>>)
         => mcpServerStatusesInternal[ServerOf(r, i)] = Some(CONNECTED)]_vars

\* C28: when a pipeline fails after a successful connect, by a discovery or a
\* registration error, the close of the server's client has completed by the
\* time the pipeline settles: no settled pipeline, and so no pipeline of a
\* call that has returned, has the client of a failed server open or closing.
C28_ClientClosedWhenSettled ==
  \A r \in Runs : \A i \in PipeIds(r) :
    LET p == pipe[r][i] IN
      (p.pc = "settled" /\ p.connect = "ok" /\ (p.disc = "error" \/ p.threw))
        => p.client = "closed"

\* The tools discovered by different servers of call 1 have different names.
DistinctToolNames ==
  \A i \in PipeIds(1) : \A j \in PipeIds(1) :
    i # j => \A k \in DOMAIN pipe[1][i].tools : \A m \in DOMAIN pipe[1][j].tools :
               pipe[1][i].tools[k].name # pipe[1][j].tools[m].name

\* The registry obtained by running the pipelines one after the other in the
\* order of the configuration, each registering what its outcome lets it register.
RECURSIVE RegisteredInOrder(_)
RegisteredInOrder(n) ==
  IF n = 0 THEN LocalTools
  ELSE registerAll(RegisteredInOrder(n - 1), pipe[1][n].tools, pipe[1][n].registered)

\* C29: with pairwise distinct tool names, what discoverMcpTools leaves behind
\* depends on the per-server outcomes only, not on the interleaving of the
\* pipelines: the registry is the one a one-by-one run in configuration order
\* produces, and every server is connected if its pipeline succeeded and its
\* client reported no fault, and disconnected otherwise.
C29_OrderIndependent ==
  (runState[1] = "returned" /\ DistinctToolNames) =>
    /\ toolRegistry = RegisteredInOrder(Len(pipe[1]))
    /\ \A i \in PipeIds(1) :
         mcpServerStatusesInternal[ServerOf(1, i)] =
           Some(IF Succeeded(pipe[1][i]) /\ pipe[1][i].faults = 0
                  THEN CONNECTED ELSE DISCONNECTED)

C29_Witness ==
  /\ runState[1] = "returned" /\ DistinctToolNames
  /\ \E i \in PipeIds(1) : \E j \in PipeIds(1) :
       /\ i # j
       /\ Succeeded(pipe[1][i]) /\ pipe[1][i].registered > 0
       /\ Succeeded(pipe[1][j]) /\ pipe[1][j].registered > 0
       /\ pipe[1][j].faults > 0
  /\ \E k \in PipeIds(1) : Failed(pipe[1][k])

\* C30: whenever callGeminiAPI reads the tool declarations, the client's tool
\* registry has been created, the local tools are registered and the MCP
\* discovery started by the constructor is not in progress.
C30_ReadsAfterSetup ==
  miniGeminiClient.has =>
    \A k \in DOMAIN miniGeminiClient.val.reads :
      LET read == miniGeminiClient.val.reads[k] IN
        /\ read.hasToolRegistry
        /\ read.localTools
        /\ read.phase # IN_PROGRESS

====
